---- MODULE Spec2Model ----
(***************************************************************************)
(* A model of uhttpd's request-servicing core: the path resolver           *)
(* (uhttpd-utils.c), the static file handler with its conditional engine   *)
(* (uhttpd-file.c) and the Basic-auth check (uhttpd-utils.c).              *)
(*                                                                         *)
(* C strings are sequences of byte values (without the terminating NUL).   *)
(* A buffer that may hold an embedded NUL is a sequence that may hold 0;   *)
(* CStr cuts it where a C string function would stop reading.              *)
(***************************************************************************)
EXTENDS Integers, Sequences, FiniteSets, TLC

VARIABLES
    \* ---- configuration and path resolver (uhttpd-utils.c) ----
    docroot,          \* cl->server->conf->docroot
    no_symlinks,      \* cl->server->conf->no_symlinks
    uh_index_files,   \* the list headed by uh_index_files, head first
    index_added,      \* history: the names in the order uh_index_add was called
    p,                \* the static struct path_info of uh_path_lookup, and its return
    \* ---- static file handler (uhttpd-file.c) ----
    request,          \* the call of uh_file_request under way: cl->request, pi and
                      \* what open(), read() and the socket do during it
    headers,          \* the values in cl->request.headers after the call
    wire,             \* the uh_tcp_send calls of the handler, in order
    cleanup,          \* what the handler opened and allocated, and what it
                      \* closed and freed before it returned
    \* ---- basic authentication (uhttpd-utils.c) ----
    uh_realms,        \* the list headed by uh_realms, head first
    realms_added,     \* history: the realms in the order uh_auth_add linked them
    auth,             \* the last uh_auth_check call: its arguments and results
    \* ---- client registry and event loop (uhttpd-utils.c) ----
    uh_clients,       \* the list headed by uh_clients, head first
    n_clients,        \* serv->n_clients of every listener serv
    released,         \* history: the addresses handed to free() so far
    client_op,        \* history: the last registry call and what it did
    \* ---- encoders and decoders (uhttpd-utils.c) ----
    codec,            \* the last encoder or decoder call: its input and output
    \* ---- socket I/O (uhttpd-utils.c) ----
    io                \* the uh_tcp_send or uh_tcp_recv call under way: its
                      \* arguments, its locals, and the system calls it made

pathVars == <<docroot, no_symlinks, uh_index_files, index_added, p>>

fileVars == <<request, headers, wire, cleanup>>

authVars == <<uh_realms, realms_added, auth>>

clientVars == <<uh_clients, n_clients, released, client_op>>

codecVars == <<codec>>

ioVars == <<io>>

vars == <<pathVars, fileVars, authVars, clientVars, codecVars, ioVars>>

-----------------------------------------------------------------------------
(* Byte values of the characters the code tests for.                       *)

NUL      == 0
PERCENT  == 37
DOT      == 46
SLASH    == 47
QMARK    == 63

(* Bounds of the model. *)
MaxSegs  == 3      \* path segments in a request URL
MaxIdx   == 2      \* index file names configured

-----------------------------------------------------------------------------
(* C string helpers.                                                       *)

\* The byte at 0-based offset i of a zero-filled buffer holding s.
At(s, i) == IF i >= 0 /\ i < Len(s) THEN s[i + 1] ELSE NUL

RECURSIVE strlen(_)
strlen(s) == IF s = <<>> \/ Head(s) = NUL THEN 0 ELSE 1 + strlen(Tail(s))

\* What a C string function reads of a buffer: the bytes before the first NUL.
CStr(s) == SubSeq(s, 1, strlen(s))

\* strncmp(a, b, n) == 0, for C strings a and b
StrNEq(a, b, n) == \A i \in 0 .. n - 1 : At(a, i) = At(b, i)

IsPrefix(a, b) == Len(a) <= Len(b) /\ SubSeq(b, 1, Len(a)) = a

-----------------------------------------------------------------------------
(* The file system the resolver looks at: stat(2) and realpath(3).         *)
(* A node is named by its canonical path, a sequence of segments.          *)

seg_w  == <<119>>          \* "w"
seg_ww == <<119, 119>>     \* "ww"
seg_d  == <<100>>          \* "d"
seg_f  == <<102>>          \* "f"
seg_i  == <<105>>          \* "i"
seg_j  == <<106>>          \* "j"
seg_l  == <<108>>          \* "l"
seg_u  == <<117>>          \* "u"
seg_p  == <<112>>          \* "p"

Dir        == [type |-> "dir", roth |-> TRUE,  target |-> <<>>]
Reg        == [type |-> "reg", roth |-> TRUE,  target |-> <<>>]
RegPrivate == [type |-> "reg", roth |-> FALSE, target |-> <<>>]
DirPrivate == [type |-> "dir", roth |-> FALSE, target |-> <<>>]
Lnk(t)     == [type |-> "lnk", roth |-> TRUE,  target |-> t]

\*  /            directory
\*  /i           regular file
\*  /w           directory
\*  /w/d         directory holding the regular files i and j
\*  /w/f         regular file
\*  /w/u         regular file without S_IROTH
\*  /w/l         symbolic link to /ww
\*  /ww          directory holding the regular file f
\*  /p           directory without S_IROTH
\*  /p/w         directory without S_IROTH holding the regular file f
FS == ( <<>>                  :> Dir )
   @@ ( <<seg_i>>             :> Reg )
   @@ ( <<seg_w>>             :> Dir )
   @@ ( <<seg_w, seg_d>>      :> Dir )
   @@ ( <<seg_w, seg_d, seg_i>> :> Reg )
   @@ ( <<seg_w, seg_d, seg_j>> :> Reg )
   @@ ( <<seg_w, seg_f>>      :> Reg )
   @@ ( <<seg_w, seg_u>>      :> RegPrivate )
   @@ ( <<seg_w, seg_l>>      :> Lnk(<<seg_ww>>) )
   @@ ( <<seg_ww>>            :> Dir )
   @@ ( <<seg_ww, seg_f>>     :> Reg )
   @@ ( <<seg_p>>             :> DirPrivate )
   @@ ( <<seg_p, seg_w>>      :> DirPrivate )
   @@ ( <<seg_p, seg_w, seg_f>> :> Reg )

NoNode == <<"ENOENT">>

\* The components of a path string, split at '/'.
RECURSIVE Split(_, _)
Split(s, cur) ==
    IF s = <<>> THEN <<cur>>
    ELSE IF Head(s) = SLASH THEN <<cur>> \o Split(Tail(s), <<>>)
    ELSE Split(Tail(s), Append(cur, Head(s)))

RECURSIVE Join(_)
Join(segs) == IF segs = <<>> THEN <<>> ELSE <<SLASH>> \o Head(segs) \o Join(Tail(segs))

\* Path resolution as the kernel does it: every component but the last must
\* be a directory, symbolic links are followed, a trailing '/' needs a directory.
RECURSIVE Walk(_, _)
Walk(cur, comps) ==
    IF comps = <<>> THEN cur
    ELSE IF FS[cur].type # "dir" THEN NoNode
    ELSE LET c == Head(comps)
             child == Append(cur, c)
         IN  IF c = <<>> \/ c = <<DOT>> THEN Walk(cur, Tail(comps))
             ELSE IF c = <<DOT, DOT>>
                  THEN Walk(IF cur = <<>> THEN cur ELSE SubSeq(cur, 1, Len(cur) - 1),
                            Tail(comps))
             ELSE IF child \notin DOMAIN FS THEN NoNode
             ELSE IF FS[child].type = "lnk" THEN Walk(FS[child].target, Tail(comps))
             ELSE Walk(child, Tail(comps))

\* The node an absolute path string names, or NoNode.
Resolve(path) ==
    IF path = <<>> \/ Head(path) # SLASH THEN NoNode
    ELSE Walk(<<>>, Tail(Split(path, <<>>)))

\* stat(path, &s): ok is !stat(...), type and roth are read from s.st_mode.
stat(path) ==
    LET n == Resolve(path)
    IN  IF n = NoNode THEN [ok |-> FALSE, type |-> "none", roth |-> FALSE]
        ELSE [ok |-> TRUE, type |-> FS[n].type, roth |-> FS[n].roth]

NoStat == [ok |-> FALSE, type |-> "none", roth |-> FALSE]

\* uh_realpath: realpath(3), which resolves every link and needs the path to exist.
uh_realpath(path) ==
    LET n == Resolve(path)
    IN  IF n = NoNode THEN [ok |-> FALSE, resolved |-> <<>>]
        ELSE [ok |-> TRUE, resolved |-> IF n = <<>> THEN <<SLASH>> ELSE Join(n)]

-----------------------------------------------------------------------------
(* uh_urldecode                                                            *)

isxdigit(c) == (c >= 48 /\ c <= 57) \/ (c >= 65 /\ c <= 70) \/ (c >= 97 /\ c <= 102)

\* the hex(x) macro
hex(x) == IF x <= 57 THEN x - 48 ELSE IF x <= 70 THEN x - 65 + 10 ELSE x - 97 + 10

\* The loop of uh_urldecode from source offset i with buf filled so far.
\* rv is the return value: the decoded length, -1 (overflow) or -2 (malformed).
RECURSIVE urldecode_from(_, _, _, _)
urldecode_from(src, i, buf, blen) ==
    IF ~(i < Len(src) /\ Len(buf) < blen)
    THEN [rv |-> IF i = Len(src) THEN Len(buf) ELSE -1, buf |-> buf]
    ELSE IF At(src, i) = PERCENT
         THEN IF (i + 2) < Len(src) /\ isxdigit(At(src, i + 1)) /\ isxdigit(At(src, i + 2))
              THEN urldecode_from(src, i + 3,
                       Append(buf, (16 * hex(At(src, i + 1)) + hex(At(src, i + 2))) % 256),
                       blen)
              ELSE [rv |-> -2, buf |-> buf]
         ELSE urldecode_from(src, i + 1, Append(buf, At(src, i)), blen)

uh_urldecode(blen, src) == urldecode_from(src, 0, <<>>, blen)

-----------------------------------------------------------------------------
(* uh_urlencode                                                            *)

isalnum(c) == (c >= 48 /\ c <= 57) \/ (c >= 65 /\ c <= 90) \/ (c >= 97 /\ c <= 122)

\* hex[d] for const char hex[] = "0123456789abcdef"
hex_digit(d) == IF d < 10 THEN 48 + d ELSE 97 + d - 10

\* The loop of uh_urlencode from source offset i with buf filled so far.
\* rv is the return value: the encoded length, or -1.
RECURSIVE urlencode_from(_, _, _, _)
urlencode_from(src, i, buf, blen) ==
    IF ~(i < Len(src) /\ Len(buf) < blen)
    THEN [rv |-> IF i = Len(src) THEN Len(buf) ELSE -1, buf |-> buf]
    \* isalnum or one of '-', '_', '.', '~'
    ELSE IF isalnum(At(src, i)) \/ At(src, i) \in {45, 95, 46, 126}
         THEN urlencode_from(src, i + 1, Append(buf, At(src, i)), blen)
         ELSE IF Len(buf) + 3 <= blen
              THEN urlencode_from(src, i + 1,
                       buf \o <<PERCENT, hex_digit((At(src, i) \div 16) % 16),
                                hex_digit(At(src, i) % 16)>>,
                       blen)
              \* len = -1; break; with i < slen
              ELSE [rv |-> -1, buf |-> buf]

\* A variant that returns the length of what fitted.
uh_urlencode_partial(blen, src) ==
    [rv |-> Len(urlencode_from(src, 0, <<>>, blen).buf),
     buf |-> urlencode_from(src, 0, <<>>, blen).buf]

uh_urlencode(blen, src) == urlencode_from(src, 0, <<>>, blen)

-----------------------------------------------------------------------------
(* canonpath: the lexical canonicalization used when no_symlinks is off.   *)

PATH_MAX == 4096

\* A zero-filled buffer is the sequence of the bytes written to it so far, a
\* byte never written reading as NUL. Poke(mem, pos, c) is mem[pos] = c.
Poke(mem, pos, c) ==
    IF pos < Len(mem) THEN [mem EXCEPT ![pos + 1] = c]
    ELSE mem \o [i \in 1 .. pos - Len(mem) |-> NUL] \o <<c>>

\* while ((path_res > path_resolved) && (*--path_res != '/')) ;
\* The offset path_res ends at; the bytes it stepped over stay in the buffer.
RECURSIVE PopSeg(_, _)
PopSeg(mem, pos) ==
    IF pos > 0
    THEN IF At(mem, pos - 1) # SLASH THEN PopSeg(mem, pos - 1) ELSE pos - 1
    ELSE pos

\* The normalize loop is at 0-based offset st.k of path_copy; st.mem is
\* path_resolved and st.pos the offset of path_res in it.
\* while ((*path_cpy != '\0') && (path_cpy < (path_copy + PATH_MAX - 2)))
canon_done(cpy, st) == At(cpy, st.k) = NUL \/ ~(st.k < PATH_MAX - 2)

\* one pass through the body of the loop
canon_iter(cpy, st) ==
    IF At(cpy, st.k) = SLASH /\ At(cpy, st.k + 1) = SLASH
    THEN [st EXCEPT !.k = st.k + 1]
    ELSE IF At(cpy, st.k) = SLASH /\ At(cpy, st.k + 1) = DOT
            /\ (At(cpy, st.k + 2) = SLASH \/ At(cpy, st.k + 2) = NUL)
         THEN [st EXCEPT !.k = st.k + 2]
    ELSE IF At(cpy, st.k) = SLASH /\ At(cpy, st.k + 1) = DOT /\ At(cpy, st.k + 2) = DOT
            /\ (At(cpy, st.k + 3) = SLASH \/ At(cpy, st.k + 3) = NUL)
         THEN [st EXCEPT !.k = st.k + 3, !.pos = PopSeg(st.mem, st.pos)]
    ELSE [k |-> st.k + 1, mem |-> Poke(st.mem, st.pos, At(cpy, st.k)), pos |-> st.pos + 1]

\* at most n passes
RECURSIVE canon_run(_, _, _)
canon_run(cpy, st, n) ==
    IF n = 0 \/ canon_done(cpy, st) THEN st
    ELSE canon_run(cpy, canon_iter(cpy, st), n - 1)

\* The loop to its end, evaluated 64 passes at a time.
RECURSIVE canon_all(_, _)
canon_all(cpy, st) ==
    IF canon_done(cpy, st) THEN st
    ELSE canon_all(cpy, canon_run(cpy, st, 64))

canon_from(cpy, k, mem, pos) == canon_all(cpy, [k |-> k, mem |-> mem, pos |-> pos])

\* The buffer path_resolved as canonpath leaves it, whatever it returns: the
\* canonical string, its NUL, and behind it what was written there before.
canon_buffer(path, path_resolved) ==
    \* a relative path is appended to getcwd(), here "/"; path_copy holds
    \* at most PATH_MAX - 1 bytes of either
    LET cpy == IF At(path, 0) # SLASH THEN <<SLASH, SLASH>> \o path ELSE path
        n   == canon_from(SubSeq(cpy, 1, IF Len(cpy) < PATH_MAX THEN Len(cpy) ELSE PATH_MAX - 1),
                          0, path_resolved, 0)
    IN  IF n.pos > 1 /\ At(n.mem, n.pos - 1) = SLASH THEN Poke(n.mem, n.pos - 1, NUL)
        ELSE IF n.pos = 0 THEN Poke(Poke(n.mem, 0, SLASH), 1, NUL)
        ELSE Poke(n.mem, n.pos, NUL)

\* canonpath(path, path_resolved): ok is "returned path_resolved", not NULL.
canonpath(path, path_resolved) ==
    LET mem == canon_buffer(path, path_resolved)
        s   == stat(CStr(mem))
    IN  [ok |-> s.ok /\ s.roth, resolved |-> mem]

-----------------------------------------------------------------------------
(* uh_index_add and uh_path_lookup                                         *)

UH_LIMIT_MSGHEAD == 4096

Max(a, b) == IF a > b THEN a ELSE b
Min(a, b) == IF a < b THEN a ELSE b

\* new->next = uh_index_files; uh_index_files = new;
index_link(list, filename) == <<filename>> \o list

\* strchr(url, '?'): the 0-based offset of the first '?', or -1
RECURSIVE strchr_from(_, _, _)
strchr_from(s, c, i) ==
    IF i >= Len(s) THEN -1
    ELSE IF At(s, i) = c THEN i
    ELSE strchr_from(s, c, i + 1)

strchr(s, c) == strchr_from(s, c, 0)

\* The "create canon path" loop at offset i of buffer. path_phys and path_info
\* are the two static buffers as the earlier iterations left them: canonpath
\* writes path_phys even when it fails, realpath only when it succeeds.
RECURSIVE canon_loop(_, _, _, _, _)
canon_loop(buffer, i, path_phys, path_info, no_sym) ==
    IF i < 0 THEN [found |-> FALSE, path_phys |-> path_phys, path_info |-> path_info]
    ELSE IF At(buffer, i) = NUL \/ At(buffer, i) = SLASH
         THEN LET cand == SubSeq(buffer, 1, Min(i + 1, Len(buffer)))
                  r    == IF no_sym THEN uh_realpath(cand) ELSE canonpath(cand, path_phys)
                  phys == IF no_sym /\ ~r.ok THEN path_phys ELSE r.resolved
              IN  IF r.ok
                  THEN [found |-> TRUE, path_phys |-> phys,
                        path_info |-> SubSeq(buffer, i + 1, Len(buffer))]
                  ELSE canon_loop(buffer, i - 1, phys, cand, no_sym)
         ELSE canon_loop(buffer, i - 1, path_phys, path_info, no_sym)

\* The index file loop: dirbuf is buffer up to pathptr (the directory with its
\* trailing slash), files the list from idx on.
RECURSIVE index_loop(_, _)
index_loop(dirbuf, files) ==
    IF files = <<>> THEN [found |-> FALSE, phys |-> dirbuf, stat |-> NoStat]
    ELSE LET s == stat(dirbuf \o Head(files))
         IN  IF s.ok /\ s.type = "reg"
             THEN [found |-> TRUE, phys |-> dirbuf \o Head(files), stat |-> s]
             ELSE index_loop(dirbuf, Tail(files))

\* The check "found path is within docroot": TRUE when the lookup goes on.
within_docroot(path_phys, root) ==
    /\ StrNEq(path_phys, root, Len(root))
    /\ (At(path_phys, Len(root)) = NUL \/ At(path_phys, Len(root)) = SLASH)

NullInfo(url) ==
    [ret |-> "NULL", url |-> url, phys |-> <<>>, name |-> <<>>, info |-> <<>>,
     query |-> <<>>, redirected |-> FALSE, stat |-> NoStat, out |-> <<>>]

\* The path_info returned for physical path ph with stat result st.
PathInfo(url, root, ph, info, query, redirected, st, out) ==
    [ret |-> "pi", url |-> url, phys |-> ph,
     name |-> SubSeq(ph, Len(root) + 1, Len(ph)), info |-> info, query |-> query,
     redirected |-> redirected, stat |-> st, out |-> out]

\* The directory branch for a request with trailing slash: idx is the
\* outcome of the index file loop, st the stat of the directory.
lookup_index(url, root, query, st, idx) ==
    PathInfo(url, root, idx.phys, <<>>, query, FALSE,
             IF idx.found THEN idx.stat ELSE st, <<>>)

\* The directory branch; dirphys is path_phys after "ensure trailing slash".
lookup_dir(url, root, files, query, slash, st, dirphys) ==
    IF ~slash
    THEN PathInfo(url, root, dirphys, <<>>, query, TRUE, st,
                  << [code |-> 302,
                      location |-> SubSeq(dirphys, Len(root) + 1, Len(dirphys))
                                      \o (IF query # <<>> THEN <<QMARK>> ELSE <<>>)
                                      \o query] >>)
    ELSE lookup_index(url, root, query, st, index_loop(dirphys, files))

\* "test current path": mem is the buffer path_phys, phys the string in it,
\* st the outcome of stat(path_phys, &p.stat).
lookup_stat(url, root, files, query, slash, mem, phys, info, st) ==
    IF st.ok /\ st.type = "reg"
    THEN PathInfo(url, root, phys, info, query, FALSE, st, <<>>)
    ELSE IF st.ok /\ st.type = "dir" /\ info = <<>>
    THEN lookup_dir(url, root, files, query, slash, st,
                    \* path_phys[strlen(path_phys)] = '/'
                    IF At(phys, Len(phys) - 1) # SLASH
                    THEN CStr(Poke(mem, Len(phys), SLASH)) ELSE phys)
    ELSE NullInfo(url)

\* "check whether found path is within docroot", on the outcome lk of the
\* loop that creates the canon path.
lookup_found(url, root, files, query, slash, lk) ==
    IF ~within_docroot(CStr(lk.path_phys), root) THEN NullInfo(url)
    ELSE lookup_stat(url, root, files, query, slash, lk.path_phys,
                     CStr(lk.path_phys), lk.path_info, stat(CStr(lk.path_phys)))

\* The lookup from "create canon path" on, buffer holding docroot and the
\* decoded path.
lookup_buffer(url, root, no_sym, files, query, buffer) ==
    lookup_found(url, root, files, query,
                 At(buffer, Max(0, Len(buffer) - 1)) = SLASH,
                 canon_loop(buffer, Len(buffer), <<>>, <<>>, no_sym))

\* The lookup once the query string is split off at 0-based offset q (-1
\* without '?') and the path is decoded into dec.
lookup_decoded(url, root, no_sym, files, q, dec) ==
    IF dec.rv < 0 THEN NullInfo(url)
    ELSE lookup_buffer(url, root, no_sym, files,
                       IF q >= 0 THEN SubSeq(url, q + 2, Len(url)) ELSE <<>>,
                       CStr(root \o dec.buf))

\* The lookup with the '?' of url at 0-based offset q, -1 without one.
lookup_split(url, root, no_sym, files, q) ==
    lookup_decoded(url, root, no_sym, files, q,
                   IF q > 0
                   THEN uh_urldecode(UH_LIMIT_MSGHEAD - Len(root) - 1, SubSeq(url, 1, q))
                   ELSE IF q = 0 THEN [rv |-> 0, buf |-> <<>>]
                   ELSE uh_urldecode(UH_LIMIT_MSGHEAD - Len(root) - 1, url))

\* uh_path_lookup(cl, url) with conf->docroot = root, conf->no_symlinks = no_sym
\* and the list uh_index_files = files. ret is "NULL" or "pi" (&p); out is
\* what was sent to the client.
uh_path_lookup(url, root, no_sym, files) ==
    lookup_split(url, root, no_sym, files, strchr(url, QMARK))

-----------------------------------------------------------------------------
(* The resolver as a state machine: the index files are configured one by  *)
(* one, then URLs are looked up.                                           *)

\* Request URLs: up to MaxSegs segments, each after a '/', then a query or none.
Urls ==
    { Join(s) \o q :
        s \in UNION { [1 .. n -> { <<>>, <<DOT>>, <<DOT, DOT>>,
                                   <<PERCENT, 50, 101, PERCENT, 50, 101>>,
                                   seg_f \o <<PERCENT, 48, 48, 120>>,
                                   seg_w, seg_ww, seg_d, seg_f, seg_l }] :
                      n \in 0 .. MaxSegs },
        q \in { <<>>, <<QMARK, 113>> } }

IndexNames == { seg_i, seg_j }

Docroots == { <<SLASH>>, Join(<<seg_w>>), Join(<<seg_p, seg_w>>) }

NoLookup == [ret |-> "none", url |-> <<>>, phys |-> <<>>, name |-> <<>>, info |-> <<>>,
             query |-> <<>>, redirected |-> FALSE, stat |-> NoStat, out |-> <<>>]



-----------------------------------------------------------------------------
(* The static file handler, uh_file_request, and the send helpers it uses. *)
(* A call is described by the request in cl->request, the path_info it is  *)
(* given and what the environment does during the call: the descriptor     *)
(* open() returns, the lengths read() returns, and the one uh_tcp_send     *)
(* call, if any, that does not write all its bytes.                        *)

SP == 32
COMMA == 44
STAR == 42
DQUOTE == 34
DASH == 45
CR == 13
LF == 10

UH_HTTP_MSG_GET == "GET"
UH_HTTP_MSG_HEAD == "HEAD"
UH_HTTP_MSG_POST == "POST"

\* enum http_version of uhttpd.h, in the order the comparisons rely on
UH_HTTP_VER_0_9 == 0
UH_HTTP_VER_1_0 == 1
UH_HTTP_VER_1_1 == 2

\* st_mode & S_IFREG and st_mode & S_IFDIR: bit tests, so a socket (0140000)
\* passes both and a block device (0060000) passes the second.
S_IFREG(mode) == mode \in {"reg", "sock"}
S_IFDIR(mode) == mode \in {"dir", "sock", "blk"}

\* An off_t is kept as its two 32-bit words; lo is below 2^31 in every file
\* looked at, so (unsigned int) and (int) of the low word are both lo.
OffT(n) == [hi |-> 0, lo |-> n]

\* What "%i" prints for an off_t argument: the conversion reads an int where
\* the caller passed a 64-bit value, so it prints one 32-bit word of it; which
\* one depends on the ABI (the low word on LP64 and little-endian ILP32).
PercentI(size, word) == IF word = "low" THEN size.lo ELSE size.hi

HexDigit(d, upper) == IF d < 10 THEN 48 + d ELSE (IF upper THEN 65 ELSE 97) + d - 10

RECURSIVE Hex(_, _)
\* "%x" (upper = FALSE) and "%X" (upper = TRUE)
Hex(n, upper) ==
    IF n < 16 THEN <<HexDigit(n, upper)>>
    ELSE Hex(n \div 16, upper) \o <<HexDigit(n % 16, upper)>>

\* A 64-bit ino_t or time_t is kept as its two 32-bit words, as an off_t is:
\* st_ino and st_mtime are the low words, below 2^31 in every stat looked at,
\* st_ino_hi and st_mtime_hi the high words, 0 in every file that is served.
\* (unsigned int) x keeps the low word.
UnsignedInt(hi, lo) == lo

uh_file_mktag(st) ==
    <<DQUOTE>> \o Hex(UnsignedInt(st.st_ino_hi, st.st_ino), FALSE)
               \o <<DASH>> \o Hex(UnsignedInt(st.st_size.hi, st.st_size.lo), FALSE)
               \o <<DASH>> \o Hex(UnsignedInt(st.st_mtime_hi, st.st_mtime), FALSE)
               \o <<DQUOTE>>

\* strptime() of a header value: 0 when the value is no date
uh_file_date2unix(hdr) == IF hdr.parsed THEN hdr.t ELSE 0

\* cl->request.headers holds at most one value per name here
uh_file_header_lookup(hdrs, name) == hdrs[name]

\* One uh_tcp_send call: what it carried and how it ended.
\*   what  the piece of the response
\*   num   status code, Content-Length value or time_t, by what
\*   ver   index of the version of a status line, -1 elsewhere
\*   data  bytes, for a tag, a chunk size, file data
\*   rv    "ok": all bytes written; "zero": uh_tcp_send returned 0;
\*         "err": uh_tcp_send returned -1
Piece(what, num, ver, data) ==
    [what |-> what, num |-> num, ver |-> ver, data |-> data, rv |-> "ok"]

NoFault == [at |-> 0, kind |-> "ok"]

\* The sender: the calls made so far, and whether one returned -1, which
\* every caller hands up through ensure_ret / ensure_out.
Sender(fault) == [log |-> <<>>, dead |-> FALSE, fault |-> fault]

\* A sender whose callers go on after a call that returned -1.
uh_tcp_send_unchecked(em, piece) ==
    [em EXCEPT !.log = Append(@, [piece EXCEPT !.rv = IF em.fault.at = Len(em.log) + 1
                                                      THEN em.fault.kind ELSE "ok"])]

uh_tcp_send(em, piece) ==
    IF em.dead THEN em
    ELSE LET k  == Len(em.log) + 1
             rv == IF em.fault.at = k THEN em.fault.kind ELSE "ok"
         IN  [em EXCEPT !.log = Append(@, [piece EXCEPT !.rv = rv]),
                        !.dead = (rv = "err")]

CRLF == <<CR, LF>>

\* sizeof(chunk), the array uh_http_sendc formats the chunk size into
ChunkArray == 8

\* a byte read from beyond the end of an array: its value is not known
Unknown == -1

\* The clen bytes uh_http_sendc sends from chunk after
\* clen = snprintf(chunk, sizeof(chunk), "%X\r\n", len): the whole text when
\* it fits with its terminator; else the first sizeof(chunk) - 1 characters,
\* the terminator snprintf puts after them, and the bytes behind the array.
snprintf_chunk(len) ==
    IF Len(Hex(len, TRUE) \o CRLF) < ChunkArray
    THEN Hex(len, TRUE) \o CRLF
    ELSE SubSeq(Hex(len, TRUE) \o CRLF, 1, ChunkArray - 1) \o <<NUL>>
            \o [i \in 1 .. (Len(Hex(len, TRUE) \o CRLF) - ChunkArray) |-> Unknown]

\* uh_http_sendc without the branch for len = 0
uh_http_sendc_no_last_chunk(em, data, len) ==
    IF len > 0
    THEN uh_tcp_send(
           uh_tcp_send(
             uh_tcp_send(em, Piece("chunk-size", len, -1, snprintf_chunk(len))),
             Piece("chunk-data", len, -1, data)),
           Piece("chunk-end", 0, -1, CRLF))
    ELSE em

\* uh_http_sendc once len = -1 has been replaced by strlen(data)
sendc_len(em, data, len) ==
    IF len > 0
    THEN uh_tcp_send(
           uh_tcp_send(
             uh_tcp_send(em, Piece("chunk-size", len, -1, snprintf_chunk(len))),
             Piece("chunk-data", len, -1, data)),
           Piece("chunk-end", 0, -1, CRLF))
    ELSE uh_tcp_send(em, Piece("last-chunk", 0, -1, <<48>> \o CRLF \o CRLF))

\* uh_http_sendc(cl, data, len); data holds the bytes of the payload the
\* model keeps, all of them unless len is larger than the model's buffers
uh_http_sendc(em, data, len) ==
    sendc_len(em, data, IF len = -1 THEN strlen(data) ELSE len)

\* len = vsnprintf(buffer, sizeof(buffer), fmt, ap) for a buffer of size
\* bytes, text being what the format expands to: ret is the value returned,
\* the length of text whether it fits or not, and stored the bytes written
\* into the buffer, the part of text that fits and the terminator.
vsnprintf(size, text) ==
    [ret |-> Len(text),
     stored |-> SubSeq(text, 1, Min(Len(text), size - 1)) \o <<NUL>>]

\* The len bytes a send reads from buffer after the vsnprintf: what was
\* stored, then bytes that were never written or lie behind the array.
formatted(f) == [i \in 1 .. f.ret |-> IF i <= Len(f.stored) THEN f.stored[i] ELSE Unknown]

\* uh_http_sendf(cl, req, fmt, ...), text being what the format expands to;
\* chunked is (req != NULL) && (req->version > UH_HTTP_VER_1_0)
uh_http_sendf(em, chunked, text) ==
    IF chunked
    THEN uh_http_sendc(em, formatted(vsnprintf(UH_LIMIT_MSGHEAD, text)),
                       vsnprintf(UH_LIMIT_MSGHEAD, text).ret)
    ELSE IF vsnprintf(UH_LIMIT_MSGHEAD, text).ret > 0
    THEN uh_tcp_send(em, Piece("formatted", vsnprintf(UH_LIMIT_MSGHEAD, text).ret, -1,
                               formatted(vsnprintf(UH_LIMIT_MSGHEAD, text))))
    ELSE em

\* uh_http_send and uh_http_sendf with the formatted text in data; chunked is
\* (req != NULL) && (req->version > UH_HTTP_VER_1_0)
uh_http_send(em, chunked, what, data) ==
    IF chunked THEN uh_http_sendc(em, data, Len(data))
    ELSE IF Len(data) > 0 THEN uh_tcp_send(em, Piece(what, Len(data), -1, data))
    ELSE em

\* A header or status line sent with req = NULL; its text is never empty.
SendLine(em, what, num, ver, data) == uh_tcp_send(em, Piece(what, num, ver, data))

\* the status line, three headers and the blank line go out in one call, then
\* the message as one chunk and the last chunk
uh_http_sendhf(em, code, msg) ==
    uh_http_sendc(
      uh_http_sendc(SendLine(em, "status+head", code, UH_HTTP_VER_1_1, <<>>),
                    formatted(vsnprintf(UH_LIMIT_MSGHEAD, msg)),
                    vsnprintf(UH_LIMIT_MSGHEAD, msg).ret),
      <<>>, 0)

\* "Access to this resource is forbidden"
Forbidden ==
    <<65, 99, 99, 101, 115, 115, 32, 116, 111, 32, 116, 104, 105, 115, 32,
      114, 101, 115, 111, 117, 114, 99, 101, 32, 105, 115, 32, 102, 111, 114, 98, 105, 100, 100, 101, 110>>

\* if (cond) ensure(uh_http_sendf(cl, NULL, ...))
SendLineIf(cond, em, what, num, ver, data) ==
    IF cond THEN SendLine(em, what, num, ver, data) ELSE em

uh_file_response_ok_hdrs(em, st, hasStat, now) ==
    SendLine(
      SendLineIf(hasStat,
        SendLineIf(hasStat,
          SendLine(em, "Connection", 0, -1, <<>>),
          "ETag", 0, -1, uh_file_mktag(st)),
        "Last-Modified", st.st_mtime, -1, <<>>),
      "Date", now, -1, <<>>)

uh_file_response_200(em, version, st, hasStat, now) ==
    uh_file_response_ok_hdrs(SendLine(em, "status", 200, version, <<>>), st, hasStat, now)

uh_file_response_304(em, version, st, now) ==
    uh_file_response_ok_hdrs(SendLine(em, "status", 304, version, <<>>), st, TRUE, now)

\* the status line and "Connection: close" go out in one call
uh_file_response_412(em, version) == SendLine(em, "status+close", 412, version, <<>>)

\* The state of the precondition tests: the sender, the local ok and the
\* header values, which the token loops write to.
RECURSIVE token_loop(_, _, _, _)
\* for (i = 0; i < strlen(hdr); i++) of uh_file_if_match and
\* uh_file_if_none_match: hdr is the value's buffer, ptr the offset the
\* comparisons start at. A separator is overwritten with NUL, which shortens
\* strlen(hdr) to the offset of that separator.
token_loop(hdr, i, ptr, tag) ==
    IF i >= strlen(hdr) THEN [found |-> FALSE, hdr |-> hdr]
    ELSE IF At(hdr, i) = SP \/ At(hdr, i) = COMMA
         THEN token_loop(Poke(hdr, i, NUL), i + 2, i + 1, tag)
    ELSE LET tok == CStr(SubSeq(hdr, ptr + 1, Len(hdr)))
         IN  IF tok = <<STAR>> \/ tok = tag
             THEN [found |-> TRUE, hdr |-> hdr]
             ELSE token_loop(hdr, i + 1, ptr, tag)

\* uh_file_if_modified_since without "*ok = 0"
uh_file_if_modified_since_ok_kept(c, rq) ==
    LET hdr == uh_file_header_lookup(c.headers, "If-Modified-Since")
    IN  IF hdr.present /\ uh_file_date2unix(hdr) >= rq.stat.st_mtime
        THEN [c EXCEPT !.ok = 1,
                       !.em = uh_file_response_304(c.em, rq.version, rq.stat, rq.now)]
        ELSE [c EXCEPT !.ok = 1]

uh_file_if_modified_since(c, rq) ==
    LET hdr == uh_file_header_lookup(c.headers, "If-Modified-Since")
    IN  IF hdr.present /\ uh_file_date2unix(hdr) >= rq.stat.st_mtime
        THEN [c EXCEPT !.ok = 0,
                       !.em = uh_file_response_304(c.em, rq.version, rq.stat, rq.now)]
        ELSE [c EXCEPT !.ok = 1]

uh_file_if_match(c, rq) ==
    LET hdr == uh_file_header_lookup(c.headers, "If-Match")
        r   == token_loop(hdr.v, 0, 0, uh_file_mktag(rq.stat))
    IN  IF hdr.present
        THEN IF r.found
             THEN [c EXCEPT !.ok = 1, !.headers["If-Match"].v = r.hdr]
             ELSE [c EXCEPT !.ok = 0, !.headers["If-Match"].v = r.hdr,
                            !.em = uh_file_response_412(c.em, rq.version)]
        ELSE [c EXCEPT !.ok = 1]

uh_file_if_range(c, rq) ==
    LET hdr == uh_file_header_lookup(c.headers, "If-Range")
    IN  IF hdr.present
        THEN [c EXCEPT !.ok = 0, !.em = uh_file_response_412(c.em, rq.version)]
        ELSE [c EXCEPT !.ok = 1]

uh_file_if_unmodified_since(c, rq) ==
    LET hdr == uh_file_header_lookup(c.headers, "If-Unmodified-Since")
    IN  IF hdr.present /\ uh_file_date2unix(hdr) <= rq.stat.st_mtime
        THEN [c EXCEPT !.ok = 0, !.em = uh_file_response_412(c.em, rq.version)]
        ELSE [c EXCEPT !.ok = 1]

uh_file_if_none_match(c, rq) ==
    LET hdr == uh_file_header_lookup(c.headers, "If-None-Match")
        r   == token_loop(hdr.v, 0, 0, uh_file_mktag(rq.stat))
    IN  IF hdr.present
        THEN IF r.found
             THEN [c EXCEPT !.ok = 0, !.headers["If-None-Match"].v = r.hdr,
                            !.em = IF rq.method = UH_HTTP_MSG_GET \/ rq.method = UH_HTTP_MSG_HEAD
                                   THEN uh_file_response_304(c.em, rq.version, rq.stat, rq.now)
                                   ELSE uh_file_response_412(c.em, rq.version)]
             ELSE [c EXCEPT !.ok = 1, !.headers["If-None-Match"].v = r.hdr]
        ELSE [c EXCEPT !.ok = 1]

\* if (ok) ensure_out(test(cl, &pi->stat, &ok)): the test is skipped once ok
\* is 0, and never reached once a send returned -1
Precondition(c) == c.ok # 0 /\ ~c.em.dead

\* The five tests in the order uh_file_request makes them.
test_if_modified_since(c, rq) ==
    IF Precondition(c) THEN uh_file_if_modified_since(c, rq) ELSE c

test_if_match(c, rq) ==
    IF Precondition(c) THEN uh_file_if_match(c, rq) ELSE c

test_if_range(c, rq) ==
    IF Precondition(c) THEN uh_file_if_range(c, rq) ELSE c

test_if_unmodified_since(c, rq) ==
    IF Precondition(c) THEN uh_file_if_unmodified_since(c, rq) ELSE c

test_if_none_match(c, rq) ==
    IF Precondition(c) THEN uh_file_if_none_match(c, rq) ELSE c

test_preconditions(rq) ==
    test_if_none_match(
      test_if_unmodified_since(
        test_if_range(
          test_if_match(
            test_if_modified_since(
              [em |-> Sender(rq.fault), ok |-> 1, headers |-> rq.headers], rq),
            rq),
          rq),
        rq),
      rq)

RECURSIVE pump(_, _, _, _, _)
\* while ((rlen = read(fd, buf, sizeof(buf))) > 0) ensure_out(uh_http_send(...))
\* reads holds the positive lengths read() returns before it returns 0 or -1
pump(em, chunked, content, reads, pos) ==
    IF reads = <<>> \/ em.dead THEN em
    ELSE pump(uh_http_send(em, chunked, "data",
                           SubSeq(content, pos + 1, pos + Head(reads))),
              chunked, content, Tail(reads), pos + Head(reads))

\* placeholder of a formatted piece of the listing
Html == <<60>>

RECURSIVE dirlist_entries(_, _, _)
dirlist_entries(em, chunked, n) ==
    IF n = 0 THEN em
    ELSE dirlist_entries(uh_http_send(em, chunked, "data", Html), chunked, n - 1)

\* nlist is the number of entries scandir() and stat() let through
uh_file_dirlist(em, chunked, nlist) ==
    uh_http_send(
      uh_http_send(
        dirlist_entries(uh_http_send(em, chunked, "data", Html), chunked, nlist),
        chunked, "data", Html),
      chunked, "data", <<>>)

\* The header section of the 200 response for a file.
file_head(rq, em) ==
    SendLine(
      SendLineIf(rq.version > UH_HTTP_VER_1_0 /\ rq.method # UH_HTTP_MSG_HEAD,
        SendLine(
          SendLine(
            uh_file_response_200(em, rq.version, rq.stat, TRUE, rq.now),
            "Content-Type", 0, -1, <<>>),
          "Content-Length", PercentI(rq.stat.st_size, rq.word), -1, <<>>),
        "Transfer-Encoding", 0, -1, <<>>),
      "blank", 0, -1, CRLF)

\* The body: the pump loop and the trailer, for every method but HEAD.
file_body(rq, em) ==
    IF rq.method # UH_HTTP_MSG_HEAD
    THEN uh_http_send(pump(em, rq.version > UH_HTTP_VER_1_0, rq.content, rq.reads, 0),
                      rq.version > UH_HTTP_VER_1_0, "data", <<>>)
    ELSE em

\* The branch "we have a file", c being the outcome of the tests.
file_response(rq, c) ==
    [headers |-> c.headers,
     em |-> IF c.em.dead THEN c.em
            ELSE IF c.ok > 0 THEN file_body(rq, file_head(rq, c.em))
            ELSE SendLine(c.em, "blank", 0, -1, CRLF)]

\* The header section of the directory listing.
dir_head(rq, em) ==
    SendLine(
      SendLineIf(rq.version > UH_HTTP_VER_1_0,
        uh_file_response_200(em, rq.version, rq.stat, FALSE, rq.now),
        "Transfer-Encoding", 0, -1, <<>>),
      "Content-Type+blank", 0, -1, CRLF)

\* The branch "directory".
dir_response(rq, em) ==
    [headers |-> rq.headers,
     em |-> uh_file_dirlist(dir_head(rq, em), rq.version > UH_HTTP_VER_1_0, rq.nlist)]

\* uh_file_dirlist reached scandir(), which allocated files: the send before
\* it did not return -1. em is the sender uh_file_dirlist is entered with.
dirlist_scandir(em, chunked) == ~em.dead /\ ~uh_http_send(em, chunked, "data", Html).dead

\* out: of uh_file_dirlist: if (files) { free(files[i]) ...; free(files); }
dirlist_out(files) == files

\* out: of uh_file_request: if (fd > -1) close(fd);
request_out(fd) == IF fd > -1 THEN <<fd>> ELSE <<>>

NoCleanup == [opened |-> <<>>, closed |-> <<>>, files |-> FALSE, freed |-> FALSE]

\* The descriptor open() returned and the array scandir() allocated during
\* uh_file_request(rq), and what was closed and freed when it returned.
uh_file_request_cleanup(rq) ==
    [opened |-> IF rq.fd > -1 THEN <<rq.fd>> ELSE <<>>,
     closed |-> request_out(rq.fd),
     files |-> /\ ~(S_IFREG(rq.stat.st_mode) /\ rq.fd > 0)
               /\ S_IFDIR(rq.stat.st_mode) /\ ~rq.no_dirlists
               /\ dirlist_scandir(dir_head(rq, Sender(rq.fault)),
                                  rq.version > UH_HTTP_VER_1_0),
     freed |-> dirlist_out(
                 /\ ~(S_IFREG(rq.stat.st_mode) /\ rq.fd > 0)
                 /\ S_IFDIR(rq.stat.st_mode) /\ ~rq.no_dirlists
                 /\ dirlist_scandir(dir_head(rq, Sender(rq.fault)),
                                    rq.version > UH_HTTP_VER_1_0))]

uh_file_request(rq) ==
    IF S_IFREG(rq.stat.st_mode) /\ rq.fd > 0
    THEN file_response(rq, test_preconditions(rq))
    ELSE IF S_IFDIR(rq.stat.st_mode) /\ ~rq.no_dirlists
    THEN dir_response(rq, Sender(rq.fault))
    ELSE [headers |-> rq.headers,
          em |-> uh_http_sendhf(Sender(rq.fault), 403, Forbidden)]

-----------------------------------------------------------------------------
(* The calls of uh_file_request that are looked at.                        *)

MaxTokens == 2
MaxContent == 3
BufSize == 2
MaxList == 1

Absent == [present |-> FALSE, v |-> <<>>]
Text(v) == [present |-> TRUE, v |-> v]
AbsentDate == [present |-> FALSE, parsed |-> FALSE, t |-> 0]
Date(t) == [present |-> TRUE, parsed |-> TRUE, t |-> t]
NotADate == [present |-> TRUE, parsed |-> FALSE, t |-> 0]

Headers(ims, im, ir, ius, inm) ==
    [ x \in {"If-Modified-Since", "If-Match", "If-Range", "If-Unmodified-Since",
             "If-None-Match"} |->
        CASE x = "If-Modified-Since"   -> ims
          [] x = "If-Match"            -> im
          [] x = "If-Range"            -> ir
          [] x = "If-Unmodified-Since" -> ius
          [] x = "If-None-Match"       -> inm ]

NoHeaders == Headers(AbsentDate, Absent, Absent, AbsentDate, Absent)

Stat(mode, size, mtime) ==
    [st_mode |-> mode, st_size |-> size, st_mtime |-> mtime, st_ino |-> 1,
     st_mtime_hi |-> 0, st_ino_hi |-> 0]

\* the file the conditional requests are for: one byte, modified at time 5
TheStat == Stat("reg", OffT(1), 5)
TheTag == uh_file_mktag(TheStat)              \* "1-1-5" in double quotes
OtherTag == <<DQUOTE, 48, 45, 48, 45, 48, DQUOTE>>   \* "0-0-0" in double quotes

Request(method, version, hdrs, st, content, reads, fd, nodir, nlist, word) ==
    [method |-> method, version |-> version, headers |-> hdrs, stat |-> st,
     content |-> content, reads |-> reads, fd |-> fd, no_dirlists |-> nodir,
     nlist |-> nlist, word |-> word, now |-> 9, fault |-> NoFault]

Methods == {UH_HTTP_MSG_GET, UH_HTTP_MSG_HEAD, UH_HTTP_MSG_POST}
Versions == {UH_HTTP_VER_0_9, UH_HTTP_VER_1_0, UH_HTTP_VER_1_1}

\* Every combination of the five conditional headers absent, passing and failing.
CondRequests ==
    { Request(m, ver, Headers(ims, im, ir, ius, inm), TheStat, <<97>>, <<1>>, 3,
              FALSE, 0, "low") :
        m \in Methods, ver \in Versions,
        ims \in {AbsentDate, Date(4), Date(5), NotADate},
        im  \in {Absent, Text(TheTag), Text(OtherTag)},
        ir  \in {Absent, Text(TheTag)},
        ius \in {AbsentDate, Date(5), Date(6)},
        inm \in {Absent, Text(TheTag), Text(OtherTag)} }

RECURSIVE JoinTokens(_, _)
JoinTokens(toks, sep) ==
    IF Len(toks) = 1 THEN Head(toks)
    ELSE Head(toks) \o sep \o JoinTokens(Tail(toks), sep)

\* header values that are lists of entity tags, and the empty value
TokenLists ==
    {<<>>} \cup { JoinTokens(t, sep) :
                    t \in UNION { [1 .. n -> {TheTag, OtherTag, <<STAR>>}] :
                                    n \in 1 .. MaxTokens },
                    sep \in {<<COMMA>>, <<COMMA, SP>>} }

TokenHeaders == {Absent} \cup { Text(v) : v \in TokenLists }

\* Every token list in If-Match or in If-None-Match, the other of the two
\* being absent or a list of two tags.
TokenRequests ==
    { Request(m, ver, Headers(AbsentDate, h[1], Absent, AbsentDate, h[2]), TheStat,
              <<97>>, <<1>>, 3, FALSE, 0, "low") :
        m \in Methods, ver \in {UH_HTTP_VER_1_0, UH_HTTP_VER_1_1},
        h \in (TokenHeaders \X {Absent, Text(TheTag \o <<COMMA>> \o OtherTag)})
              \cup ({Absent, Text(TheTag \o <<COMMA>> \o OtherTag)} \X TokenHeaders) }

Contents == UNION { [1 .. n -> {NUL, 97}] : n \in 0 .. MaxContent }

RECURSIVE Sum(_)
Sum(q) == IF q = <<>> THEN 0 ELSE Head(q) + Sum(Tail(q))

\* the lengths read() can return for a file of n bytes and a buffer of
\* BufSize bytes; a sum below n is a read that ended with -1
ReadsOf(n) ==
    { r \in UNION { [1 .. k -> 1 .. BufSize] : k \in 0 .. n } : Sum(r) <= n }

BigSizes == { [hi |-> 1, lo |-> 1] }       \* 4 GiB + 1

\* Files of every content read in every way, "%i" reading the low word of
\* st_size; the same files with "%i" reading the high word; files of 4 GiB
\* and more.
BodyRequests ==
    { Request(m, ver, NoHeaders, Stat("reg", OffT(Len(c)), 5), c, r, 3, FALSE, 0, "low") :
        m \in Methods, ver \in Versions, c \in Contents,
        r \in UNION { ReadsOf(n) : n \in 0 .. MaxContent } }
    \cup
    { Request(m, ver, NoHeaders, Stat("reg", OffT(Len(c)), 5), c, <<Len(c)>>, 3,
              FALSE, 0, "high") :
        m \in Methods, ver \in Versions, c \in Contents \ {<<>>} }
    \cup
    { Request(UH_HTTP_MSG_HEAD, ver, NoHeaders, Stat("reg", sz, 5), <<>>, <<>>, 3,
              FALSE, 0, w) :
        ver \in Versions, sz \in BigSizes, w \in {"low", "high"} }

OtherRequests ==
    { Request(m, ver, NoHeaders, Stat(mode, OffT(1), 5), <<97>>, <<1>>, fd, nodir, n,
              "low") :
        m \in Methods, ver \in Versions, mode \in {"reg", "dir", "sock", "fifo"},
        fd \in {-1, 0, 3}, nodir \in BOOLEAN, n \in 0 .. MaxList }

\* The requests without a failing send, and each of them with one uh_tcp_send
\* call that returns -1 or 0.
Faultless ==
    { rq \in CondRequests \cup TokenRequests \cup BodyRequests \cup OtherRequests :
        /\ Sum(rq.reads) <= Len(rq.content)
        /\ (S_IFREG(rq.stat.st_mode) \/ rq.fd = -1) }

FaultsOf(rq) ==
    {NoFault} \cup
    { [at |-> k, kind |-> kd] :
        k \in 1 .. Len(uh_file_request(rq).em.log), kd \in {"err", "zero"} }

NoRequest == Request("none", 0, NoHeaders, Stat("none", OffT(0), 0), <<>>, <<>>, -1,
                     FALSE, 0, "low")

-----------------------------------------------------------------------------
(* Basic authentication: uh_auth_add, uh_auth_check, uh_b64decode.         *)

COLON == 58
PLUS == 43
EQUALS == 61

tolower(c) == IF c >= 65 /\ c <= 90 THEN c + 32 ELSE c

\* !strncasecmp(a, b, n)
StrNCaseEq(a, b, n) ==
    \A i \in 0 .. Min(n, Min(strlen(a), strlen(b)) + 1) - 1 :
        tolower(At(a, i)) = tolower(At(b, i))

\* !strcasecmp(a, b)
StrCaseEq(a, b) == StrNCaseEq(a, b, Max(strlen(a), strlen(b)) + 1)

\* the value of a base64 character, -1 for a character the loop skips
b64_value(cin) ==
    IF cin >= 48 /\ cin <= 57 THEN cin - 48 + 52
    ELSE IF cin >= 65 /\ cin <= 90 THEN cin - 65
    ELSE IF cin >= 97 /\ cin <= 122 THEN cin - 97 + 26
    ELSE IF cin = PLUS THEN 62
    ELSE IF cin = SLASH THEN 63
    ELSE IF cin = EQUALS THEN 0
    ELSE -1

RECURSIVE b64_from(_, _, _, _, _, _)
\* the loop of uh_b64decode from index i on; cout is kept modulo 2^24, the
\* bits the three stores read
b64_from(src, i, slen, cout, buf, blen) ==
    IF ~(i <= slen /\ At(src, i) # NUL) THEN buf
    ELSE IF b64_value(At(src, i)) < 0 THEN b64_from(src, i + 1, slen, cout, buf, blen)
    ELSE LET c == (cout * 64 + b64_value(At(src, i))) % 16777216
         IN  IF i % 4 = 3
             THEN IF Len(buf) + 3 < blen
                  THEN b64_from(src, i + 1, slen, c,
                                buf \o << c \div 65536, (c \div 256) % 256, c % 256 >>,
                                blen)
                  ELSE buf
             ELSE b64_from(src, i + 1, slen, c, buf, blen)

\* the bytes stored in buf, the closing NUL included
uh_b64decode(blen, src, slen) == b64_from(src, 0, slen, 0, <<>>, blen) \o <<NUL>>

\* crypt(3), one-way and salted: a setting that starts with two salt
\* characters gives those two and a digest of the key; any other setting gives
\* the failure token "*0".
IsSaltChar(c) ==
    (c >= 46 /\ c <= 57) \/ (c >= 65 /\ c <= 90) \/ (c >= 97 /\ c <= 122)

crypt(key, setting) ==
    IF Len(setting) >= 2 /\ IsSaltChar(setting[1]) /\ IsSaltChar(setting[2])
    THEN SubSeq(setting, 1, 2) \o <<35>> \o key
    ELSE <<STAR, 48>>

\* the password database getpwnam() reads: "r" has a hashed password, "n" is
\* locked
getpwnam(name) ==
    IF name = <<114>> THEN [found |-> TRUE, pw_passwd |-> crypt(<<113>>, <<97, 98>>)]
    ELSE IF name = <<110>> THEN [found |-> TRUE, pw_passwd |-> <<33>>]
    ELSE [found |-> FALSE, pw_passwd |-> <<>>]

\* sizes of the fields of struct auth_realm
REALM_USER_SIZE == 32
REALM_PASS_SIZE == 128

\* memcpy(dst, src, min(strlen(src), sizeof(dst) - 1)) into a zeroed field
CopyField(src, size) == SubSeq(src, 1, Min(strlen(src), size - 1))

\* the realm uh_auth_add builds; its pass is empty when the realm is dropped
new_realm(path, user, pass) ==
    LET pw == getpwnam(CStr(SubSeq(pass, 4, Len(pass))))
    IN  [path |-> CopyField(path, PATH_MAX),
         user |-> CopyField(user, REALM_USER_SIZE),
         pass |-> IF strlen(pass) > 3 /\ StrNEq(pass, <<36, 112, 36>>, 3)
                  THEN IF pw.found /\ At(pw.pw_passwd, 0) # 33 /\ At(pw.pw_passwd, 0) # NUL
                       THEN CopyField(pw.pw_passwd, REALM_PASS_SIZE)
                       ELSE <<>>
                  ELSE CopyField(pass, REALM_PASS_SIZE)]

\* new->next = uh_realms; uh_realms = new
realm_link(list, new) == <<new>> \o list

\* realm_covers without the comparison of the paths
realm_covers_any(realm, name) == strlen(name) >= strlen(realm.path)

\* (plen >= rlen) && !strncasecmp(pi->name, realm->path, rlen)
realm_covers(realm, name) ==
    /\ strlen(name) >= strlen(realm.path)
    /\ StrNCaseEq(name, realm.path, strlen(realm.path))

\* Where a loop with a break stops: the index of the first TRUE in the
\* sequence of its test's results, 0 if it runs to the end.
FirstIndex(tests) ==
    IF \E i \in 1 .. Len(tests) : tests[i]
    THEN CHOOSE i \in 1 .. Len(tests) : tests[i] /\ \A j \in 1 .. i - 1 : ~tests[j]
    ELSE 0

Authorization == <<65, 117, 116, 104, 111, 114, 105, 122, 97, 116, 105, 111, 110>>
Basic_ == <<66, 97, 115, 105, 99, 32>>

\* the header the foreach_header loop of uh_auth_check stops at
is_basic_auth(h) ==
    /\ StrCaseEq(h.name, Authorization)
    /\ strlen(h.value) > 6
    /\ StrNCaseEq(h.value, Basic_, 6)

NoRealm == [path |-> <<>>, user |-> <<>>, pass |-> <<>>]

\* if ((pass = strchr(buffer, ':')) != NULL) { user = buffer; *pass++ = 0; }
basic_credentials(buffer) ==
    [given |-> strchr(buffer, COLON) >= 0,
     user  |-> SubSeq(buffer, 1, strchr(buffer, COLON)),
     pass  |-> SubSeq(buffer, strchr(buffer, COLON) + 2, Len(buffer))]

\* The user and password sent in an "Authorization: Basic" header of that value.
decode_credentials(value) ==
    basic_credentials(CStr(uh_b64decode(UH_LIMIT_MSGHEAD - 1,
                                        SubSeq(value, 7, Len(value)),
                                        strlen(value) - 6)))

\* "try to get client auth info": h is the index of the header the scan
\* stops at, 0 if there is none.
header_credentials(hdrs, h) ==
    IF h = 0 THEN [given |-> FALSE, user |-> <<>>, pass |-> <<>>]
    ELSE decode_credentials(hdrs[h].value)

\* "check user pass" and the 401: first is the index of the first covering
\* realm, match that of the first covering realm of the user (0 for none).
check_realm(realms, first, pass, match) ==
    IF match > 0
       /\ (pass = realms[match].pass
           \/ crypt(pass, realms[match].pass) = realms[match].pass)
    THEN [ret |-> 1, realm |-> match, sent401 |-> FALSE]
    ELSE [ret |-> 0, realm |-> IF match > 0 THEN match ELSE first, sent401 |-> TRUE]

\* "found a realm matching the username": cr are the credentials sent.
find_realm(realms, name, first, cr) ==
    check_realm(realms, first, cr.pass,
                IF cr.given
                THEN FirstIndex([i \in 1 .. Len(realms) |->
                                   realm_covers(realms[i], name) /\ cr.user = realms[i].user])
                ELSE 0)

\* the part of uh_auth_check for a covered name
check_protected(realms, name, hdrs, first) ==
    find_realm(realms, name, first,
               header_credentials(hdrs,
                   FirstIndex([i \in 1 .. Len(hdrs) |-> is_basic_auth(hdrs[i])])))

\* uh_auth_check(cl, req, pi): ret is its return value, realm what it left in
\* req->realm (index into realms, 0 for NULL), sent401 whether it sent the 401
uh_auth_check(realms, name, hdrs) ==
    IF \A i \in 1 .. Len(realms) : ~realm_covers(realms[i], name)
    THEN [ret |-> 1, realm |-> 0, sent401 |-> FALSE]
    ELSE check_protected(realms, name, hdrs,
                         FirstIndex([i \in 1 .. Len(realms) |-> realm_covers(realms[i], name)]))

\* http_versions[]: "HTTP/0.9", "HTTP/1.0", "HTTP/1.1", indexed by
\* req->version
http_versions ==
    << <<72, 84, 84, 80, 47, 48, 46, 57>>,
       <<72, 84, 84, 80, 47, 49, 46, 48>>,
       <<72, 84, 84, 80, 47, 49, 46, 49>> >>

\* " 401 Authorization Required\r\n"
Status401 ==
    <<32, 52, 48, 49, 32, 65, 117, 116, 104, 111, 114, 105, 122, 97, 116, 105,
      111, 110, 32, 82, 101, 113, 117, 105, 114, 101, 100, 13, 10>>

\* "WWW-Authenticate: Basic realm=\""
Challenge401 ==
    <<87, 87, 87, 45, 65, 117, 116, 104, 101, 110, 116, 105, 99, 97, 116, 101,
      58, 32, 66, 97, 115, 105, 99, 32, 114, 101, 97, 108, 109, 61, 34>>

\* "\"\r\nContent-Type: text/plain\r\nContent-Length: 23\r\n\r\n"
Headers401 ==
    <<34, 13, 10, 67, 111, 110, 116, 101, 110, 116, 45, 84, 121, 112, 101, 58,
      32, 116, 101, 120, 116, 47, 112, 108, 97, 105, 110, 13, 10, 67, 111,
      110, 116, 101, 110, 116, 45, 76, 101, 110, 103, 116, 104, 58, 32, 50,
      51, 13, 10, 13, 10>>

\* "Authorization Required\n"
Body401 ==
    <<65, 117, 116, 104, 111, 114, 105, 122, 97, 116, 105, 111, 110, 32, 82,
      101, 113, 117, 105, 114, 101, 100, 10>>

\* The text the format of the 401 gives for req->version = version and
\* conf->realm = realm.
format_401(version, realm) ==
    http_versions[version + 1] \o Status401 \o Challenge401 \o realm \o Headers401 \o Body401

\* The 401 sent as uh_http_sendf sends with the request at hand: chunked
\* under HTTP/1.1.
auth_sends_by_version(sent401, version, realm) ==
    IF sent401
    THEN uh_http_send(Sender(NoFault), version > UH_HTTP_VER_1_0, "401",
                      format_401(version, realm)).log
    ELSE <<>>

\* What uh_auth_check hands to the socket: the 401 through
\* uh_http_sendf(cl, NULL, ...) when it denies, nothing otherwise.
auth_sends(sent401, version, realm) ==
    IF sent401
    THEN uh_http_send(Sender(NoFault), FALSE, "401", format_401(version, realm)).log
    ELSE <<>>

-----------------------------------------------------------------------------
(* The realms and the uh_auth_check calls that are looked at.              *)

MaxRealms == 2

B64Alphabet ==
    [i \in 0 .. 63 |->
        IF i < 26 THEN 65 + i ELSE IF i < 52 THEN 97 + i - 26
        ELSE IF i < 62 THEN 48 + i - 52 ELSE IF i = 62 THEN PLUS ELSE SLASH]

RECURSIVE B64Encode(_)
\* RFC 4648 base64 with padding, as a client encodes user:pass
B64Encode(bytes) ==
    IF bytes = <<>> THEN <<>>
    ELSE LET b1 == bytes[1]
             b2 == IF Len(bytes) >= 2 THEN bytes[2] ELSE 0
             b3 == IF Len(bytes) >= 3 THEN bytes[3] ELSE 0
         IN  << B64Alphabet[b1 \div 4],
                B64Alphabet[(b1 % 4) * 16 + b2 \div 16],
                IF Len(bytes) >= 2 THEN B64Alphabet[(b2 % 16) * 4 + b3 \div 64] ELSE EQUALS,
                IF Len(bytes) >= 3 THEN B64Alphabet[b3 % 64] ELSE EQUALS >>
             \o B64Encode(SubSeq(bytes, 4, Len(bytes)))

RealmPaths == { <<47, 97>>, <<47, 65, 47, 98>> }        \* "/a", "/A/b"
UserNames == { <<117>>, <<118>> }                   \* "u", "v"
\* "p", "$p$r", "$p$n", "$p$z" and the empty password
ConfiguredPasswords == { <<112>>, <<36, 112, 36, 114>>,
                         <<36, 112, 36, 110>>, <<36, 112, 36, 122>>, <<>> }
\* "p", "pw", "q" and the empty password
SentPasswords == { <<112>>, <<112, 119>>, <<113>>, <<>> }

\* pi->name of the requests
AuthNames == { <<47, 97, 47, 120>>, <<47, 65, 47, 66>>, <<47, 99>> }   \* "/a/x", "/A/B", "/c"

Header(name, value) == [name |-> name, value |-> value]

NoCredentials == [given |-> FALSE, user |-> <<>>, pass |-> <<>>]
Credentials(user, pass) == [given |-> TRUE, user |-> user, pass |-> pass]

\* Requests as a client builds them: the headers, and the credentials they
\* carry under the Basic scheme, if any.
AuthRequests ==
    \* user:pass, sent as "Basic", "basic" and "BASIC"
    { [hdrs |-> <<Header(Authorization, sch \o B64Encode(u \o <<COLON>> \o pw))>>,
       creds |-> Credentials(u, pw)] :
         sch \in {Basic_, <<98, 97, 115, 105, 99, 32>>, <<66, 65, 83, 73, 67, 32>>},
         u \in UserNames, pw \in SentPasswords }
    \cup
    \* the same under a header name in lower case, and after another
    \* Authorization header and a header of another name
    { [hdrs |-> h \o <<Header(n, Basic_ \o B64Encode(u \o <<COLON, 112>>))>>,
       creds |-> Credentials(u, <<112>>)] :
         h \in { <<>>, <<Header(Authorization, <<66, 101, 97, 114, 101, 114, 32, 100, 84, 112, 119>>), Header(<<72, 111, 115, 116>>, <<72, 111, 115, 116>>)>> },
         n \in {Authorization, <<97, 117, 116, 104, 111, 114, 105, 122, 97, 116, 105, 111, 110>>}, u \in UserNames }
    \cup
    \* no header, another scheme, another header name, no value after the
    \* scheme, no base64, no ':' in the decoded value
    { [hdrs |-> h, creds |-> NoCredentials] :
         h \in { <<>>,
                 <<Header(Authorization, <<66, 101, 97, 114, 101, 114, 32, 100, 84, 112, 119>>)>>,
                 <<Header(<<72, 111, 115, 116>>, Basic_ \o B64Encode(<<117, COLON, 112>>))>>,
                 <<Header(Authorization, Basic_)>>,
                 <<Header(Authorization, Basic_ \o <<33, 33, 33, 33>>)>>,
                 <<Header(Authorization, Basic_ \o B64Encode(<<117>>))>>,
                 <<Header(Authorization, Basic_ \o B64Encode(<<117, 112, 119>>))>> } }

\* req->version and conf->realm of the checks: each version, with the realm
\* string "r" or the empty one
Challenges ==
    { <<UH_HTTP_VER_0_9, <<>>>>, <<UH_HTTP_VER_1_0, <<114>>>>, <<UH_HTTP_VER_1_1, <<114>>>> }

NoCheck == [name |-> <<>>, hdrs |-> <<>>, creds |-> NoCredentials,
            ret |-> -1, realm |-> 0, sent401 |-> FALSE,
            version |-> UH_HTTP_VER_0_9, conf_realm |-> <<>>, out |-> <<>>]

-----------------------------------------------------------------------------
(* The client registry and the event loop: uh_client_add, uh_client_lookup, *)
(* uh_client_remove, uh_client_shutdown, uh_ufd_add, uh_ufd_remove.         *)
(* A struct client is a record with its address and its three struct       *)
(* uloop_fd members; a struct uloop_fd is [fd, cb, registered], cb telling  *)
(* whether u->cb is non-NULL and registered whether the event loop polls    *)
(* the descriptor.                                                         *)

MaxClients == 2   \* addresses malloc() hands out, and sockets accept() returns
MaxListeners == 2

\* the listeners uh_listener_add has made
Listeners == 1 .. MaxListeners

\* the values of a struct client * other than NULL
Addrs == 1 .. MaxClients

\* the descriptors accept() returns
Socks == 4 .. (3 + MaxClients)

NULL == 0

\* the members uh_ufd_add and uh_ufd_remove are called on by themselves; wpipe
\* is treated by every function as rpipe is
Members == {"fd", "rpipe"}

\* memset(new, 0, ...) followed by the three assignments to the descriptors;
\* timeout is timeout.pending and proc is proc.pid
new_client(addr, sock, serv) ==
    [addr |-> addr,
     server |-> serv,
     fd    |-> [fd |-> sock, cb |-> FALSE, registered |-> FALSE],
     rpipe |-> [fd |-> -1, cb |-> FALSE, registered |-> FALSE],
     wpipe |-> [fd |-> -1, cb |-> FALSE, registered |-> FALSE],
     timeout |-> FALSE,
     proc |-> 0]

\* What the request handlers outside this file leave in a client they are
\* busy with: a pending timeout, or the two pipes to a child process, its
\* pid and a pending timeout. The pipes of the client at addr are the
\* descriptors 10 * addr and 10 * addr + 1; the child reads the second.
client_busy(c, how) ==
    IF how = "timeout" THEN [c EXCEPT !.timeout = TRUE]
    ELSE [c EXCEPT !.timeout = TRUE, !.proc = 100 + c.addr,
                   !.rpipe = [fd |-> 10 * c.addr, cb |-> TRUE, registered |-> TRUE],
                   !.wpipe = [fd |-> 10 * c.addr + 1, cb |-> FALSE, registered |-> FALSE]]

\* uh_client_add: the list after a malloc() that returned addr
uh_client_add(clients, addr, sock, serv) == <<new_client(addr, sock, serv)>> \o clients

\* serv->n_clients++
n_clients_inc(n, serv) == [n EXCEPT ![serv] = @ + 1]

\* A decrement that takes the listener at the head of uh_listeners.
n_clients_dec_head(n, serv) == [n EXCEPT ![1] = @ - 1]

\* cur->server->n_clients--
n_clients_dec(n, serv) == [n EXCEPT ![serv] = @ - 1]

\* uh_client_lookup(sock): the address of the first client of the list whose
\* fd.fd is sock, NULL when there is none
uh_client_lookup(clients, sock) ==
    IF \E i \in 1 .. Len(clients) : clients[i].fd.fd = sock
    THEN clients[CHOOSE i \in 1 .. Len(clients) :
                    /\ clients[i].fd.fd = sock
                    /\ \A j \in 1 .. (i - 1) : clients[j].fd.fd # sock].addr
    ELSE NULL

\* uloop_fd_add(u, ev) with a read or write event: the descriptor is polled
\* from now on, unless it is not an open descriptor
uloop_fd_add(u) == [u EXCEPT !.registered = u.registered \/ u.fd > -1]

\* uloop_fd_delete(u)
uloop_fd_delete(u) == [u EXCEPT !.registered = FALSE]

\* uh_ufd_add(u, h, ev); h tells whether the handler is non-NULL
uh_ufd_add(u, h) == IF h THEN uloop_fd_add([u EXCEPT !.cb = TRUE]) ELSE u

\* uh_ufd_remove(u): the struct uloop_fd afterwards
uh_ufd_remove(u) ==
    [fd |-> IF u.fd > -1 THEN -1 ELSE u.fd,
     cb |-> FALSE,
     registered |-> IF u.cb THEN FALSE ELSE u.registered]

\* A uh_client_remove whose loop takes the head of the list for a pointer
\* that is not in it.
client_index_any(clients, cl) ==
    IF \E i \in 1 .. Len(clients) : clients[i].addr = cl
    THEN CHOOSE i \in 1 .. Len(clients) : clients[i].addr = cl
    ELSE IF Len(clients) > 0 THEN 1 ELSE 0

\* What one uh_ufd_remove(u) call does besides: the descriptor it closes and
\* the descriptor it takes from the event loop, in lists of 0 or 1 elements.
ufd_closed(u) == IF u.fd > -1 THEN <<u.fd>> ELSE <<>>

ufd_deleted(u) == IF u.cb THEN <<u.fd>> ELSE <<>>

\* the position in the list of the client at address cl, 0 when the loop of
\* uh_client_remove ends without finding it
client_index(clients, cl) ==
    IF \E i \in 1 .. Len(clients) : clients[i].addr = cl
    THEN CHOOSE i \in 1 .. Len(clients) : clients[i].addr = cl
    ELSE 0

\* prv->next = cur->next, or uh_clients = cur->next
client_unlink(clients, i) == SubSeq(clients, 1, i - 1) \o SubSeq(clients, i + 1, Len(clients))

\* What the last registry call did: the descriptors it closed, those it took
\* from the event loop, the addresses it freed, and its change of n_clients;
\* cl is the client uh_client_add returned or uh_client_remove was given.
\* did lists, in the order they were made, the calls of tls_close,
\* uloop_timeout_cancel and uloop_process_delete; tls is conf->tls as
\* uh_client_shutdown read it.
Call(op, cl, closed, deleted, freed, counted) ==
    [op |-> op, cl |-> cl, closed |-> closed, deleted |-> deleted,
     freed |-> freed, counted |-> counted, did |-> <<>>, tls |-> FALSE]

NoCall == Call("none", NULL, <<>>, <<>>, <<>>, 0)

\* the client of the list at address cl
client_at(clients, cl) == clients[client_index(clients, cl)]

\* A uh_client_remove that leaves the pipes of the client alone.
remove_found_pipes_kept(cl, cur) ==
    [Call("uh_client_remove", cl, ufd_closed(cur.fd), ufd_deleted(cur.fd), <<cur.addr>>, -1)
        EXCEPT !.did = (IF cur.timeout THEN <<"uloop_timeout_cancel">> ELSE <<>>)
                          \o (IF cur.proc # 0 THEN <<"uloop_process_delete">> ELSE <<>>)]

\* uh_client_remove(cl) when the loop finds cl in cur: what the three
\* uh_ufd_remove calls, n_clients-- and free(cur) do
remove_found(cl, cur) ==
    [Call("uh_client_remove", cl,
          ufd_closed(cur.rpipe) \o ufd_closed(cur.wpipe) \o ufd_closed(cur.fd),
          ufd_deleted(cur.rpipe) \o ufd_deleted(cur.wpipe) \o ufd_deleted(cur.fd),
          <<cur.addr>>, -1)
        EXCEPT !.did = (IF cur.timeout THEN <<"uloop_timeout_cancel">> ELSE <<>>)
                          \o (IF cur.proc # 0 THEN <<"uloop_process_delete">> ELSE <<>>)]

\* the descriptors that are open in the clients of the list
open_socks(clients) ==
    { clients[i].fd.fd : i \in 1 .. Len(clients) } \ {-1}

-----------------------------------------------------------------------------
(* The encoder and decoder calls that are looked at.                       *)

NoCodec == [op |-> "none", in |-> <<>>, out |-> <<>>]

-----------------------------------------------------------------------------
(* uh_tcp_send and uh_tcp_recv: __uh_raw_send, __uh_raw_recv and            *)
(* uh_socket_wait, one step for each system call they make.                *)

MaxSend == 3       \* bytes given to uh_tcp_send, and asked of uh_tcp_recv
MaxCalls == 5      \* system calls made during one uh_tcp_send or uh_tcp_recv
MaxTimeout == 2    \* conf->network_timeout, in seconds

\* A call under way.
\*   op     "uh_tcp_send" or "uh_tcp_recv"
\*   pc     "io": about to call wfn / rfn; "select": in the loop of
\*          uh_socket_wait, about to call select; "ret": has returned
\*   data   the bytes at the buf the caller gave (send)
\*   buf    the offset of the local buf in them
\*   len    the local len
\*   sec    the seconds of conf->network_timeout
\*   tv     timeout.tv_sec of uh_socket_wait
\*   calls  history: the system calls made, with their arguments and results
\*   ret    the value returned
NoIo == [op |-> "none", pc |-> "ret", data |-> <<>>, buf |-> 0, len |-> 0, sec |-> 0,
         tv |-> 0, calls |-> <<>>, ret |-> 0]

\* uh_tcp_send(cl, data, Len(data)) and uh_tcp_recv(cl, buf, len) at their
\* first line
tcp_send_call(data, sec) ==
    [NoIo EXCEPT !.op = "uh_tcp_send", !.pc = "io", !.data = data, !.len = Len(data),
                 !.sec = sec]

tcp_recv_call(len, sec) ==
    [NoIo EXCEPT !.op = "uh_tcp_recv", !.pc = "io", !.len = len, !.sec = sec]

\* one system call in the history
SysCall(fn, s, rv, errno, took) ==
    [fn |-> fn, buf |-> s.buf, len |-> s.len, tv |-> s.tv, rv |-> rv, errno |-> errno,
     took |-> took]

\* return x;
raw_return(s, x) == [s EXCEPT !.pc = "ret", !.ret = x]

\* A variant of the short write branch that moves len and leaves buf.
short_write_same_buf(s, rv) == [s EXCEPT !.len = s.len - rv]

\* len -= rv; buf += rv; continue;
short_write(s, rv) == [s EXCEPT !.len = s.len - rv, !.buf = s.buf + rv]

\* A variant of the timeout branch that goes back to the loop.
wait_failed_retry(s) == [s EXCEPT !.pc = "io"]

\* if (!uh_socket_wait(fd, sec, true)) return -1;
wait_failed(s) == raw_return(s, -1)

\* uh_socket_wait(fd, sec, write) up to its first select: timeout.tv_sec = sec
socket_wait_call(s) == [s EXCEPT !.pc = "select", !.tv = s.sec]

\* One pass through the loop of __uh_raw_send: wfn returned rv, with errno
\* set when rv is -1.
raw_send_step(s, rv, errno) ==
    IF rv < 0
    THEN IF errno = "EINTR" THEN s
         ELSE IF s.sec > 0 /\ errno = "EAGAIN" THEN socket_wait_call(s)
         ELSE raw_return(s, -1)
    ELSE IF rv = 0 THEN raw_return(s, 0)
    ELSE IF rv < s.len THEN short_write(s, rv)
    ELSE raw_return(s, rv)

\* One pass through the loop of __uh_raw_recv: rfn returned rv.
raw_recv_step(s, rv, errno) ==
    IF rv < 0
    THEN IF errno = "EINTR" THEN s
         ELSE IF s.sec > 0 /\ errno = "EAGAIN" THEN socket_wait_call(s)
         ELSE raw_return(s, -1)
    ELSE IF rv = 0 THEN raw_return(s, 0)
    ELSE raw_return(s, rv)

\* One pass through the loop of uh_socket_wait: select returned rv after took
\* seconds, and left in timeout the time not slept, as Linux does.
socket_wait_step(s, rv, errno, took) ==
    IF rv < 0 /\ errno = "EINTR" THEN [s EXCEPT !.tv = s.tv - took]
    ELSE IF rv <= 0 THEN wait_failed(s)
    ELSE [s EXCEPT !.pc = "io"]

\* What write(fd, buf, len) can do: take 1 to len bytes, return 0, or fail.
WriteResults(len) ==
    { <<rv, "none">> : rv \in 0 .. len } \cup { <<-1, e>> : e \in {"EINTR", "EAGAIN", "EPIPE"} }

\* What read(fd, buf, len) can do.
ReadResults(len) ==
    { <<rv, "none">> : rv \in 0 .. len }
        \cup { <<-1, e>> : e \in {"EINTR", "EAGAIN", "ECONNRESET"} }

\* What select can do with tv seconds of timeout: <<rv, errno, seconds taken>>
SelectResults(tv) ==
    { <<1, "none", t>> : t \in 0 .. tv } \cup { <<0, "none", tv>> }
        \cup { <<-1, "EINTR", t>> : t \in 0 .. tv } \cup { <<-1, "EBADF", 0>> }

SendData == { [i \in 1 .. n |-> 96 + i] : n \in 1 .. MaxSend }

MaxChunks == 2    \* uh_http_sendc calls before the one that ends the body

\* A uh_http_sendc(cl, data, len) call: len, and the bytes of data the model
\* keeps.
Payload(data, len) == [data |-> data, len |-> len]

\* The calls looked at: payloads of 0, 1, 2, 10 and 16 bytes, a string sent
\* with len = -1, and buffers of 0xFFFFF, 0x100000 and 0x1000000 bytes, of
\* which the first byte is kept.
Payloads ==
    { Payload(d, Len(d)) : d \in { <<>>, <<97>>, CRLF, [i \in 1 .. 10 |-> 97],
                                   [i \in 1 .. 16 |-> 98] } }
    \cup { Payload(<<97, 98>>, -1) }
    \cup { Payload(<<97>>, n) : n \in { 1048575, 1048576, 16777216 } }

PayloadSeqs == UNION { [1 .. n -> Payloads] : n \in 0 .. MaxChunks }

MaxOver == 3      \* bytes by which a formatted text is longer than the buffer

\* "HTTP/1.1 302 Found\r\nLocation: "
Found302 ==
    <<72, 84, 84, 80, 47, 49, 46, 49, 32, 51, 48, 50, 32, 70, 111, 117, 110,
      100, 13, 10, 76, 111, 99, 97, 116, 105, 111, 110, 58, 32>>

\* "\r\nConnection: close\r\n\r\n"
CloseHead ==
    <<13, 10, 67, 111, 110, 110, 101, 99, 116, 105, 111, 110, 58, 32, 99, 108,
      111, 115, 101, 13, 10, 13, 10>>

\* the text of the redirect of uh_path_lookup for the canonical path and the
\* query of the request
redirect_text(path, query) ==
    Found302 \o path \o (IF query # <<>> THEN <<63>> ELSE <<>>) \o query \o CloseHead

\* "<li><strong><a href='"
ItemHead ==
    <<60, 108, 105, 62, 60, 115, 116, 114, 111, 110, 103, 62, 60, 97, 32, 104,
      114, 101, 102, 61, 39>>

\* what follows the second d_name in the item of a directory that was
\* modified at time 0 and has st_size 0
ItemTail ==
    <<60, 47, 97, 62, 47, 60, 47, 115, 116, 114, 111, 110, 103, 62, 60, 98, 114,
      32, 47, 62, 60, 115, 109, 97, 108, 108, 62, 109, 111, 100, 105, 102, 105,
      101, 100, 58, 32, 84, 104, 117, 44, 32, 48, 49, 32, 74, 97, 110, 32, 49,
      57, 55, 48, 32, 48, 48, 58, 48, 48, 58, 48, 48, 32, 71, 77, 84, 60, 98,
      114, 32, 47, 62, 100, 105, 114, 101, 99, 116, 111, 114, 121, 32, 45, 32,
      48, 46, 48, 48, 32, 107, 98, 121, 116, 101, 60, 98, 114, 32, 47, 62, 60,
      98, 114, 32, 47, 62, 60, 47, 115, 109, 97, 108, 108, 62, 60, 47, 108, 105,
      62>>

\* the text of the item of uh_file_dirlist for the subdirectory d_name of
\* the directory pi->name
item_text(name, d_name) == ItemHead \o name \o d_name \o <<39, 62>> \o d_name \o ItemTail

\* n times the byte c
Repeat(c, n) == [i \in 1 .. n |-> c]

\* "/d/d/ ... /d/" of 2 * n + 1 bytes
NestedDir(n) == [i \in 1 .. (2 * n + 1) |-> IF i % 2 = 1 THEN SLASH ELSE 100]

\* the length of a d_name with which the item of a directory whose name
\* has 3073 bytes ends near the end of the buffer
NearName == (UH_LIMIT_MSGHEAD - Len(item_text(NestedDir(1536), <<>>))) \div 2

\* The formatted sends looked at. The redirect to "/d/" with no query, a
\* query of one byte, and queries with which the text ends from MaxOver
\* bytes before the end of the buffer to MaxOver bytes behind it; the item
\* of the subdirectory "a" of "/d/", and the items of subdirectories of a
\* deeply nested directory whose names make the text end near the end of the
\* buffer.
FormatTexts ==
    { redirect_text(<<SLASH, 100, SLASH>>, Repeat(97, n)) :
        n \in {0, 1} \cup { UH_LIMIT_MSGHEAD + k - Len(redirect_text(<<SLASH, 100, SLASH>>, <<97>>)) + 1 :
                              k \in (0 - MaxOver) .. MaxOver } }
    \cup
    { item_text(NestedDir(1536), Repeat(97, n)) :
        n \in (NearName - MaxOver) .. (NearName + MaxOver) }
    \cup
    { item_text(<<SLASH, 100, SLASH>>, <<97>>) }

MaxUrl == 3       \* bytes of a string given to uh_urlencode

\* The strings encoded: letters, digits, '-', '_', '.', '~', and the
\* reserved '/' and '%'.
UrlStrings ==
    UNION { [1 .. n -> {97, 90, 57, DASH, 95, DOT, 126, SLASH, PERCENT}] : n \in 0 .. MaxUrl }

\* the buffer sizes tried around the size a result needs
SizesAround(n) == { n - 1, n, n + 1 } \ { -1 }

\* uh_urlencode(buf, blen, s, slen) and then, when it did not fail,
\* uh_urldecode(back, dlen, buf, its return value)
url_round_trip(s, blen, dlen, enc) ==
    [op |-> "uh_urlencode",
     in |-> [s |-> s, blen |-> blen, dlen |-> dlen],
     out |-> [enc |-> enc,
              dec |-> IF enc.rv >= 0 THEN uh_urldecode(dlen, enc.buf)
                      ELSE [rv |-> 0, buf |-> <<>>]]]

\* The absolute paths canonicalized: up to MaxSegs segments, each after a
\* '/', and a '/' behind them or none
ShortPaths ==
    { Join(segs) \o t :
        segs \in UNION { [1 .. n -> { <<>>, <<DOT>>, <<DOT, DOT>>, <<DOT, DOT, DOT>>,
                                     seg_w, seg_d, seg_f, seg_l }] : n \in 0 .. MaxSegs },
        t \in { <<>>, <<SLASH>> } } \ { <<>> }

\* "/." n times
DotSegs(n) == [i \in 1 .. 2 * n |-> IF i % 2 = 1 THEN SLASH ELSE DOT]

\* the number of "/." between "/w" and a last segment of two bytes that fill
\* path_copy
Fill == (PATH_MAX - 1 - 2 - 3) \div 2

\* Paths that reach the end of path_copy: "/w" or "/w/", many "/.", one
\* more segment.
LongPaths ==
    { Join(<<seg_w>>) \o pad \o DotSegs(n) \o Join(<<last>>) :
        pad \in { <<>>, <<SLASH>> },
        n \in { Fill - 1, Fill },
        last \in { seg_d, <<DOT>> \o seg_d, <<DOT, DOT>> \o seg_d, seg_d \o seg_d } }

\* The stats tagged: inodes, sizes and modification times below 2^32 and above
TagStats ==
    { [st_mode |-> "reg", st_ino |-> ino[2], st_ino_hi |-> ino[1], st_size |-> size,
       st_mtime |-> mtime[2], st_mtime_hi |-> mtime[1]] :
        ino \in { <<0, 1>>, <<0, 2>>, <<1, 1>> },
        size \in { OffT(0), OffT(1), [hi |-> 1, lo |-> 1] },
        mtime \in { <<0, 5>>, <<0, 6>>, <<1, 5>>, <<1, 0>>, <<0, 16>> } }

\* canonpath(path, a), and canonpath of the string it left in a, into b
canon_twice(path, first) ==
    [op |-> "canonpath",
     in |-> path,
     out |-> [first |-> [ok |-> first.ok, resolved |-> CStr(first.resolved)],
              again |-> [ok |-> canonpath(CStr(first.resolved), <<>>).ok,
                         resolved |-> CStr(canonpath(CStr(first.resolved), <<>>).resolved)]]]

RECURSIVE send_chunks(_, _)
\* one uh_http_sendc call for each payload of ps, in order
send_chunks(em, ps) ==
    IF ps = <<>> THEN em
    ELSE send_chunks(uh_http_sendc(em, Head(ps).data, Head(ps).len), Tail(ps))

-----------------------------------------------------------------------------
(* Initial states and actions.                                             *)

PathIdle ==
    /\ docroot = Join(<<seg_w>>)
    /\ no_symlinks = FALSE
    /\ uh_index_files = <<>>
    /\ index_added = <<>>
    /\ p = NoLookup

FileIdle ==
    /\ request = NoRequest
    /\ headers = NoHeaders
    /\ wire = <<>>
    /\ cleanup = NoCleanup

AuthIdle ==
    /\ uh_realms = <<>>
    /\ realms_added = <<>>
    /\ auth = NoCheck

ClientIdle ==
    /\ uh_clients = <<>>
    /\ n_clients = [serv \in Listeners |-> 0]
    /\ released = {}
    /\ client_op = NoCall

CodecIdle == codec = NoCodec

IoIdle == io = NoIo

PathInit ==
    /\ docroot \in Docroots
    /\ no_symlinks \in BOOLEAN
    /\ uh_index_files = <<>>
    /\ index_added = <<>>
    /\ p = NoLookup
    /\ FileIdle
    /\ AuthIdle
    /\ ClientIdle
    /\ CodecIdle
    /\ IoIdle

\* uh_index_add(filename), called while the server is configured
IndexAdd(filename) ==
    /\ p.ret = "none"
    /\ Len(uh_index_files) < MaxIdx
    /\ uh_index_files' = index_link(uh_index_files, filename)
    /\ index_added' = Append(index_added, filename)
    /\ UNCHANGED <<docroot, no_symlinks, p, fileVars, authVars, clientVars, codecVars, ioVars>>

\* uh_path_lookup(cl, url), once per request
PathLookup ==
    /\ p.ret = "none"
    /\ \E url \in Urls : p' = uh_path_lookup(url, docroot, no_symlinks, uh_index_files)
    /\ UNCHANGED <<docroot, no_symlinks, uh_index_files, index_added, fileVars, authVars, clientVars, codecVars, ioVars>>

\* The request is over: the next uh_path_lookup starts from a zeroed p.
PathDone ==
    /\ p.ret # "none"
    /\ p' = NoLookup
    /\ UNCHANGED <<docroot, no_symlinks, uh_index_files, index_added, fileVars, authVars, clientVars, codecVars, ioVars>>

PathNext ==
    \/ \E f \in IndexNames : IndexAdd(f)
    \/ PathLookup
    \/ PathDone

SpecPath == PathInit /\ [][PathNext]_vars

FileInit == PathIdle /\ FileIdle /\ AuthIdle /\ ClientIdle /\ CodecIdle /\ IoIdle

\* uh_file_request(cl, pi), from its first line to its return
FileRequest ==
    /\ request = NoRequest
    /\ \E rq \in Faultless : \E fault \in FaultsOf(rq) :
          LET r == uh_file_request([rq EXCEPT !.fault = fault])
          IN  /\ request' = [rq EXCEPT !.fault = fault]
              /\ headers' = r.headers
              /\ wire' = r.em.log
              /\ cleanup' = uh_file_request_cleanup([rq EXCEPT !.fault = fault])
    /\ UNCHANGED <<pathVars, authVars, clientVars, codecVars, ioVars>>

\* The connection is closed; the next request is read into a fresh client.
FileDone ==
    /\ request # NoRequest
    /\ request' = NoRequest
    /\ headers' = NoHeaders
    /\ wire' = <<>>
    /\ cleanup' = NoCleanup
    /\ UNCHANGED <<pathVars, authVars, clientVars, codecVars, ioVars>>

FileNext ==
    \/ FileRequest
    \/ FileDone

SpecFile == FileInit /\ [][FileNext]_vars

AuthInit == PathIdle /\ FileIdle /\ AuthIdle /\ ClientIdle /\ CodecIdle /\ IoIdle

\* uh_auth_add(path, user, pass), called while the server is configured
AuthAdd ==
    /\ auth = NoCheck
    /\ Len(realms_added) < MaxRealms
    /\ \E path \in RealmPaths, user \in UserNames, pass \in ConfiguredPasswords :
          LET new == new_realm(path, user, pass)
          IN  IF At(new.pass, 0) # NUL
              THEN /\ uh_realms' = realm_link(uh_realms, new)
                   /\ realms_added' = Append(realms_added, new)
              ELSE UNCHANGED <<uh_realms, realms_added>>
    /\ UNCHANGED <<auth, pathVars, fileVars, clientVars, codecVars, ioVars>>

\* uh_auth_check(cl, req, pi), once per request
AuthCheck ==
    /\ auth = NoCheck
    /\ \E name \in AuthNames, rq \in AuthRequests, ch \in Challenges :
          LET r == uh_auth_check(uh_realms, name, rq.hdrs)
          IN  auth' = [name |-> name, hdrs |-> rq.hdrs, creds |-> rq.creds,
                       ret |-> r.ret, realm |-> r.realm, sent401 |-> r.sent401,
                       version |-> ch[1], conf_realm |-> ch[2],
                       out |-> auth_sends(r.sent401, ch[1], ch[2])]
    /\ UNCHANGED <<uh_realms, realms_added, pathVars, fileVars, clientVars, codecVars, ioVars>>

\* The request is over; req->realm goes with the client.
AuthDone ==
    /\ auth # NoCheck
    /\ auth' = NoCheck
    /\ UNCHANGED <<uh_realms, realms_added, pathVars, fileVars, clientVars, codecVars, ioVars>>

AuthNext ==
    \/ AuthAdd
    \/ AuthCheck
    \/ AuthDone

SpecAuth == AuthInit /\ [][AuthNext]_vars

ClientInit == PathIdle /\ FileIdle /\ AuthIdle /\ ClientIdle /\ CodecIdle /\ IoIdle

\* uh_client_add(sock, serv, peer) for a connection accept() just returned;
\* addr is what malloc() returns, NULL or memory that is not in use.
ClientAdd ==
    /\ \E sock \in Socks \ open_socks(uh_clients), serv \in Listeners :
       \E addr \in {NULL} \cup (Addrs \ { uh_clients[i].addr : i \in 1 .. Len(uh_clients) }) :
          IF addr # NULL
          THEN /\ uh_clients' = uh_client_add(uh_clients, addr, sock, serv)
               /\ n_clients' = n_clients_inc(n_clients, serv)
               /\ client_op' = Call("uh_client_add", addr, <<>>, <<>>, <<>>, 1)
          ELSE /\ client_op' = Call("uh_client_add", NULL, <<>>, <<>>, <<>>, 0)
               /\ UNCHANGED <<uh_clients, n_clients>>
    /\ UNCHANGED <<released, pathVars, fileVars, authVars, codecVars, ioVars>>

\* uh_ufd_add(&cl->fd, h, ev), or the same on cl->rpipe or cl->wpipe, for a
\* client that is allocated
UfdAdd ==
    /\ \E i \in 1 .. Len(uh_clients), m \in Members, h \in BOOLEAN :
          /\ uh_clients' = [uh_clients EXCEPT ![i][m] = uh_ufd_add(uh_clients[i][m], h)]
          /\ client_op' = Call("uh_ufd_add", NULL, <<>>, <<>>, <<>>, 0)
    /\ UNCHANGED <<n_clients, released, pathVars, fileVars, authVars, codecVars, ioVars>>

\* uh_ufd_remove(&cl->fd), or the same on a pipe, for a client that is allocated
UfdRemove ==
    /\ \E i \in 1 .. Len(uh_clients), m \in Members :
          /\ uh_clients' = [uh_clients EXCEPT ![i][m] = uh_ufd_remove(uh_clients[i][m])]
          /\ client_op' = Call("uh_ufd_remove", NULL,
                               ufd_closed(uh_clients[i][m]), ufd_deleted(uh_clients[i][m]),
                               <<>>, 0)
    /\ UNCHANGED <<n_clients, released, pathVars, fileVars, authVars, codecVars, ioVars>>

\* A request handler outside this file takes up a client: it sets the
\* timeout, or starts a child process.
ClientBusy ==
    /\ \E i \in 1 .. Len(uh_clients), how \in {"timeout", "child"} :
          /\ ~uh_clients[i].timeout /\ uh_clients[i].proc = 0
          /\ uh_clients[i].rpipe.fd = -1
          /\ uh_clients' = [uh_clients EXCEPT ![i] = client_busy(uh_clients[i], how)]
          /\ client_op' = Call(how, NULL, <<>>, <<>>, <<>>, 0)
    /\ UNCHANGED <<n_clients, released, pathVars, fileVars, authVars, codecVars, ioVars>>

\* The body of uh_client_remove(cl), cl being any pointer value the caller
\* holds: the address of a client of the list or one that is not in it.
\* op is the function called and before what it did before the body.
client_remove(op, before, cl) ==
    IF client_index(uh_clients, cl) # 0
    THEN /\ uh_clients' = client_unlink(uh_clients, client_index(uh_clients, cl))
         /\ n_clients' = n_clients_dec(n_clients, client_at(uh_clients, cl).server)
         /\ released' = released \cup {cl}
         /\ client_op' = [remove_found(cl, client_at(uh_clients, cl))
                             EXCEPT !.op = op, !.did = before \o @,
                                    !.tls = before # <<>>]
    ELSE /\ client_op' = [Call(op, cl, <<>>, <<>>, <<>>, 0)
                             EXCEPT !.did = before, !.tls = before # <<>>]
         /\ UNCHANGED <<uh_clients, n_clients, released>>

\* uh_client_remove(cl)
ClientRemove ==
    /\ \E cl \in Addrs : client_remove("uh_client_remove", <<>>, cl)
    /\ UNCHANGED <<pathVars, fileVars, authVars, codecVars, ioVars>>

\* uh_client_shutdown(cl) for a client that is allocated, in a build with
\* HAVE_TLS; tls is cl->server->conf->tls
ClientShutdown ==
    /\ \E i \in 1 .. Len(uh_clients), tls \in BOOLEAN :
          /\ client_remove("uh_client_shutdown", IF tls THEN <<"tls_close">> ELSE <<>>,
                           uh_clients[i].addr)
          /\ client_op'.tls = tls
    /\ UNCHANGED <<pathVars, fileVars, authVars, codecVars, ioVars>>

CodecInit == PathIdle /\ FileIdle /\ AuthIdle /\ ClientIdle /\ CodecIdle /\ IoIdle

\* uh_http_sendc for each payload of a body, then uh_http_sendc(cl, NULL, 0)
ChunkEncode ==
    /\ codec = NoCodec
    /\ \E ps \in PayloadSeqs :
          codec' = [op |-> "uh_http_sendc", in |-> ps,
                    out |-> uh_http_sendc(send_chunks(Sender(NoFault), ps), <<>>, 0).log]
    /\ UNCHANGED <<pathVars, fileVars, authVars, clientVars, ioVars>>

\* uh_urlencode of a string into a buffer of blen bytes, and uh_urldecode of
\* the result into one of dlen bytes
UrlRoundTrip ==
    /\ codec = NoCodec
    /\ \E s \in UrlStrings :
       \E blen \in SizesAround(uh_urlencode(UH_LIMIT_MSGHEAD, s).rv) :
       \E dlen \in SizesAround(Len(s)) :
          codec' = url_round_trip(s, blen, dlen, uh_urlencode(blen, s))
    /\ UNCHANGED <<pathVars, fileVars, authVars, clientVars, ioVars>>

\* uh_http_sendf of a text, with and without a request of HTTP/1.1, and
\* uh_http_sendhf of the text as its message
FormatSend ==
    /\ codec = NoCodec
    /\ \E text \in FormatTexts, fn \in {"plain", "chunked", "hf"} :
          codec' = [op |-> "uh_http_sendf", in |-> <<fn, text>>,
                    out |-> IF fn = "hf" THEN uh_http_sendhf(Sender(NoFault), 500, text).log
                            ELSE uh_http_sendf(Sender(NoFault), fn = "chunked", text).log]
    /\ UNCHANGED <<pathVars, fileVars, authVars, clientVars, ioVars>>

\* uh_file_mktag of one stat and of another
TagTwice ==
    /\ codec = NoCodec
    /\ \E s1 \in TagStats, s2 \in TagStats :
          codec' = [op |-> "uh_file_mktag", in |-> <<s1, s2>>,
                    out |-> <<uh_file_mktag(s1), uh_file_mktag(s2)>>]
    /\ UNCHANGED <<pathVars, fileVars, authVars, clientVars, ioVars>>

\* canonpath of an absolute path, then of its result
CanonTwice ==
    /\ codec = NoCodec
    /\ \E path \in ShortPaths \cup LongPaths :
          codec' = canon_twice(path, canonpath(path, <<>>))
    /\ UNCHANGED <<pathVars, fileVars, authVars, clientVars, ioVars>>

\* The call has returned: the next one starts with its own buffers.
CodecDone ==
    /\ codec # NoCodec
    /\ codec' = NoCodec
    /\ UNCHANGED <<pathVars, fileVars, authVars, clientVars, ioVars>>

IoInit == PathIdle /\ FileIdle /\ AuthIdle /\ ClientIdle /\ CodecIdle /\ IoIdle

\* uh_tcp_send(cl, buf, len) is called
TcpSend ==
    /\ io = NoIo
    /\ \E data \in SendData, sec \in 0 .. MaxTimeout : io' = tcp_send_call(data, sec)
    /\ UNCHANGED <<pathVars, fileVars, authVars, clientVars, codecVars>>

\* uh_tcp_recv(cl, buf, len) is called
TcpRecv ==
    /\ io = NoIo
    /\ \E len \in 1 .. MaxSend, sec \in 0 .. MaxTimeout : io' = tcp_recv_call(len, sec)
    /\ UNCHANGED <<pathVars, fileVars, authVars, clientVars, codecVars>>

\* __uh_raw_send calls wfn and acts on what it returns
RawSend ==
    /\ io.op = "uh_tcp_send" /\ io.pc = "io"
    /\ Len(io.calls) < MaxCalls
    /\ \E r \in WriteResults(io.len) :
          io' = [raw_send_step(io, r[1], r[2])
                    EXCEPT !.calls = Append(io.calls, SysCall("write", io, r[1], r[2], 0))]
    /\ UNCHANGED <<pathVars, fileVars, authVars, clientVars, codecVars>>

\* __uh_raw_recv calls rfn and acts on what it returns
RawRecv ==
    /\ io.op = "uh_tcp_recv" /\ io.pc = "io"
    /\ Len(io.calls) < MaxCalls
    /\ \E r \in ReadResults(io.len) :
          io' = [raw_recv_step(io, r[1], r[2])
                    EXCEPT !.calls = Append(io.calls, SysCall("read", io, r[1], r[2], 0))]
    /\ UNCHANGED <<pathVars, fileVars, authVars, clientVars, codecVars>>

\* uh_socket_wait calls select and acts on what it returns
SocketWait ==
    /\ io.pc = "select"
    /\ Len(io.calls) < MaxCalls
    /\ \E r \in SelectResults(io.tv) :
          io' = [socket_wait_step(io, r[1], r[2], r[3])
                    EXCEPT !.calls = Append(io.calls, SysCall("select", io, r[1], r[2], r[3]))]
    /\ UNCHANGED <<pathVars, fileVars, authVars, clientVars, codecVars>>

\* The caller has the return value; the next call starts afresh.
IoDone ==
    /\ io # NoIo /\ io.pc = "ret"
    /\ io' = NoIo
    /\ UNCHANGED <<pathVars, fileVars, authVars, clientVars, codecVars>>

ClientNext ==
    \/ ClientAdd
    \/ ClientBusy
    \/ UfdAdd
    \/ UfdRemove
    \/ ClientRemove
    \/ ClientShutdown

SpecClient == ClientInit /\ [][ClientNext]_vars

CodecNext ==
    \/ ChunkEncode
    \/ UrlRoundTrip
    \/ CanonTwice
    \/ TagTwice
    \/ FormatSend
    \/ CodecDone

SpecCodec == CodecInit /\ [][CodecNext]_vars

IoNext ==
    \/ TcpSend
    \/ TcpRecv
    \/ RawSend
    \/ RawRecv
    \/ SocketWait
    \/ IoDone

SpecIo == IoInit /\ [][IoNext]_vars

-----------------------------------------------------------------------------
(* Properties of the path resolver.                                        *)

\* docroot followed by the decoded path part of url, as the resolver builds it
DecodedPath(url) ==
    LET q == strchr(url, QMARK)
    IN  CStr(docroot \o uh_urldecode(UH_LIMIT_MSGHEAD,
                                     IF q >= 0 THEN SubSeq(url, 1, q) ELSE url).buf)

\* The path with "//", "." and ".." segments collapsed.
Collapsed(path) == CStr(canon_buffer(path, <<>>))

\* path is docroot or lies below it
BelowDocroot(path) ==
    /\ IsPrefix(docroot, path)
    /\ \/ docroot[Len(docroot)] = SLASH
       \/ At(path, Len(docroot)) = NUL
       \/ At(path, Len(docroot)) = SLASH

\* The URL looked up leaves docroot through its ".." segments.
ClimbsOut == p.ret # "none" /\ ~BelowDocroot(Collapsed(DecodedPath(p.url)))

\* C1, as claimed: whatever the URL and the symlink mode, uh_path_lookup
\* returns NULL or a phys that starts with docroot and has '/' or the end of
\* the string right after that prefix, also after the directory branch has
\* appended '/' or substituted an index file, and a URL whose ".." segments
\* climb above docroot yields NULL.
C1_JailAsClaimed ==
    /\ p.ret = "pi" =>
           /\ IsPrefix(docroot, p.phys)
           /\ (At(p.phys, Len(docroot)) = NUL \/ At(p.phys, Len(docroot)) = SLASH)
    /\ ClimbsOut => p.ret = "NULL"

\* What holds of the returned phys: it is docroot or lies below it (under
\* docroot "/" the byte after the prefix is the first byte of a name).
C1_PhysBelowDocroot == p.ret = "pi" => BelowDocroot(p.phys)

\* What holds of climbing URLs: they yield NULL whenever docroot itself has
\* S_IROTH, or the lookup runs with no_symlinks.
C1_ClimbRefusedWhenReadable ==
    (ClimbsOut /\ (stat(docroot).roth \/ no_symlinks)) => p.ret = "NULL"

\* The case C1 fails on: docroot and its parent lack S_IROTH, the URL names a
\* regular file and then climbs above docroot, and the file is returned.
C1_ClimbServed == ClimbsOut /\ p.ret = "pi" /\ p.stat.type = "reg"

\* Under a docroot other than "/" a URL resolved to a directory of docroot
\* and phys was rewritten to an index file after the docroot test.
C1_Witness ==
    /\ docroot # <<SLASH>>
    /\ p.ret = "pi"
    /\ p.stat.type = "reg"
    /\ p.phys = docroot \o Join(<<seg_d, seg_j>>)

\* A URL that climbs above docroot was turned down.
C1_WitnessClimb == ClimbsOut /\ p.ret = "NULL" /\ docroot # <<SLASH>>

\* The directory a looked-up URL resolves to, when its path ends in '/' and
\* names a directory inside docroot; <<>> otherwise.
ResolvedDir ==
    LET b == DecodedPath(p.url)
        d == IF no_symlinks THEN uh_realpath(b).resolved ELSE Collapsed(b)
        s == stat(d)
    IN  IF /\ p.ret # "none"
           /\ At(b, Len(b) - 1) = SLASH
           /\ (no_symlinks => uh_realpath(b).ok)
           /\ s.ok /\ s.type = "dir" /\ s.roth
           /\ BelowDocroot(d)
        THEN d
        ELSE <<>>

WithSlash(d) == IF At(d, Len(d) - 1) = SLASH THEN d ELSE d \o <<SLASH>>

IsRegular(path) == stat(path).ok /\ stat(path).type = "reg"

\* The index files in the order of their uh_index_add calls that exist as
\* regular files in directory d.
ExistingIndexes(d) ==
    SelectSeq(index_added, LAMBDA f : IsRegular(WithSlash(d) \o f))

\* C10, as claimed: for a URL that resolves to a directory and ends in '/',
\* the index file configured first among those that exist as regular files in
\* the directory replaces phys and stat; when none exists phys stays the
\* directory itself.
C10_IndexOrder ==
    (ResolvedDir # <<>> /\ p.ret = "pi") =>
        LET d == ResolvedDir
            e == ExistingIndexes(d)
        IN  IF e # <<>>
            THEN /\ p.phys = WithSlash(d) \o Head(e)
                 /\ p.stat = stat(WithSlash(d) \o Head(e))
            ELSE p.phys \in {d, WithSlash(d)}

\* What the lookup does instead when several index files exist: the one
\* configured last replaces phys and stat.
C10_LastConfiguredWins ==
    (ResolvedDir # <<>> /\ p.ret = "pi" /\ ExistingIndexes(ResolvedDir) # <<>>) =>
        LET d == ResolvedDir
            e == ExistingIndexes(d)
        IN  /\ p.phys = WithSlash(d) \o e[Len(e)]
            /\ p.stat = stat(WithSlash(d) \o e[Len(e)])

\* The decoded path part of the URL looked up, without docroot.
UrlPath ==
    LET q == strchr(p.url, QMARK)
    IN  CStr(uh_urldecode(UH_LIMIT_MSGHEAD,
                          IF q >= 0 THEN SubSeq(p.url, 1, q) ELSE p.url).buf)

\* "?" and the query of the URL looked up when it has a non-empty one.
QueryPart ==
    LET q == strchr(p.url, QMARK)
    IN  IF q >= 0 /\ q + 1 < Len(p.url)
        THEN <<QMARK>> \o SubSeq(p.url, q + 2, Len(p.url)) ELSE <<>>

\* The directory inside docroot that the whole path of the looked-up URL
\* names, when the byte before the end of docroot-plus-path is not '/'
\* (slash = FALSE) or is '/' (slash = TRUE); <<>> otherwise.
DirNamed(slash) ==
    LET b == DecodedPath(p.url)
        d == IF no_symlinks THEN uh_realpath(b).resolved ELSE Collapsed(b)
        s == stat(d)
    IN  IF /\ p.ret # "none"
           /\ (At(b, Len(b) - 1) = SLASH) = slash
           /\ (no_symlinks => uh_realpath(b).ok)
           /\ s.ok /\ s.type = "dir" /\ s.roth
           /\ BelowDocroot(d)
        THEN d
        ELSE <<>>

\* The 302 response for directory d and the query of the URL.
Redirect302(d) ==
    << [code |-> 302,
        location |-> SubSeq(d, Len(docroot) + 1, Len(d)) \o <<SLASH>> \o QueryPart] >>

\* C11, as claimed: a URL that resolves to a directory with no residual path
\* info and whose path does not end in '/' gets exactly one response, 302
\* with Location = the directory's name, '/', and '?' plus the query when
\* one was given; redirected is set and no index file is tried. A URL whose
\* path ends in '/' gets no bytes and redirected stays unset.
C11_DirRedirect ==
    /\ (DirNamed(FALSE) # <<>> \/ (DirNamed(TRUE) # <<>> /\ At(UrlPath, Len(UrlPath) - 1) # SLASH)) =>
           LET d == IF DirNamed(FALSE) # <<>> THEN DirNamed(FALSE) ELSE DirNamed(TRUE)
           IN  /\ p.ret = "pi"
               /\ p.redirected
               /\ p.out = Redirect302(d)
               /\ p.stat = stat(d)
    /\ (p.ret # "none" /\ At(UrlPath, Len(UrlPath) - 1) = SLASH) =>
           (p.out = <<>> /\ ~p.redirected)

\* canonpath popped no segment while it collapsed the looked-up path: no
\* byte of a dropped segment is left behind the terminator in path_phys.
NothingPopped ==
    canon_buffer(DecodedPath(p.url), <<>>) = Collapsed(DecodedPath(p.url))

\* What holds of the redirect: under a docroot other than "/", when
\* canonpath pops no segment or the lookup runs with no_symlinks, a directory
\* named without '/' at the end of docroot plus path gets the one 302
\* response of C11; a path with '/' at its end gets no bytes.
C11_RedirectWhenNothingPopped ==
    /\ (DirNamed(FALSE) # <<>> /\ docroot # <<SLASH>> /\ (NothingPopped \/ no_symlinks)) =>
           /\ p.ret = "pi"
           /\ p.redirected
           /\ p.out = Redirect302(DirNamed(FALSE))
           /\ p.stat = stat(DirNamed(FALSE))
    /\ (p.ret # "none" /\ At(DecodedPath(p.url), Len(DecodedPath(p.url)) - 1) = SLASH) =>
           (p.out = <<>> /\ ~p.redirected)

\* The case C11 fails on: the path ends in a ".." segment, and the Location
\* sent is not the name of the directory followed by '/'.
C11_StaleLocation ==
    /\ DirNamed(FALSE) # <<>>
    /\ docroot = Join(<<seg_w>>)
    /\ ~no_symlinks
    /\ p.redirected
    /\ p.out # Redirect302(DirNamed(FALSE))

\* The path part of the looked-up URL, still encoded.
RawPath ==
    IF strchr(p.url, QMARK) >= 0 THEN SubSeq(p.url, 1, strchr(p.url, QMARK)) ELSE p.url

\* Decoding the path of the looked-up URL succeeds and gives a NUL byte.
DecodesNul ==
    /\ p.ret # "none"
    /\ uh_urldecode(UH_LIMIT_MSGHEAD - Len(docroot) - 1, RawPath).rv >= 0
    /\ \E i \in 1 .. Len(uh_urldecode(UH_LIMIT_MSGHEAD, RawPath).buf) :
           uh_urldecode(UH_LIMIT_MSGHEAD, RawPath).buf[i] = NUL

\* C12, as claimed: a URL whose percent-decoding produces a NUL byte is
\* rejected, uh_path_lookup returns NULL for it.
C12_NulRejected == DecodesNul => p.ret = "NULL"

\* The looked-up URL cut before the escape that decodes to the first NUL,
\* its query kept.
CutAtNul ==
    LET i == CHOOSE i \in 0 .. Len(RawPath) :
                 /\ Len(CStr(uh_urldecode(UH_LIMIT_MSGHEAD, SubSeq(RawPath, 1, i)).buf))
                       = Len(UrlPath)
                 /\ uh_urldecode(UH_LIMIT_MSGHEAD, SubSeq(RawPath, 1, i)).rv = Len(UrlPath)
    IN  SubSeq(RawPath, 1, i) \o SubSeq(p.url, Len(RawPath) + 1, Len(p.url))

\* What the lookup does instead: the bytes from the NUL on are dropped, and
\* the URL is resolved exactly as the URL cut before that escape is.
C12_NulTruncates ==
    DecodesNul =>
        p = [uh_path_lookup(CutAtNul, docroot, no_symlinks, uh_index_files)
                EXCEPT !.url = p.url]

\* The case C12 fails on: the file named before the NUL is returned.
C12_NulServed ==
    /\ DecodesNul
    /\ p.ret = "pi"
    /\ p.stat.type = "reg"
    /\ p.phys = docroot \o Join(<<seg_f>>)

-----------------------------------------------------------------------------
(* Properties of the static file handler.                                  *)

Served == request.method # "none"

\* the call is for a regular file that open() opened
RegularOpened == Served /\ request.stat.st_mode = "reg" /\ request.fd > 0

IsStatus(piece) == piece.what \in {"status", "status+close", "status+head"}

AllWritten == \A i \in 1 .. Len(wire) : wire[i].rv = "ok"

RECURSIVE TokensOf(_, _)
\* the tokens of a header value: the maximal runs without ',' and space
TokensOf(v, cur) ==
    IF v = <<>> THEN (IF cur = <<>> THEN {} ELSE {cur})
    ELSE IF Head(v) = COMMA \/ Head(v) = SP
         THEN (IF cur = <<>> THEN {} ELSE {cur}) \cup TokensOf(Tail(v), <<>>)
         ELSE TokensOf(Tail(v), Append(cur, Head(v)))

\* some token of the list is the tag or "*"
AnyTokenMatches(v, tag) == \E t \in TokensOf(v, <<>>) : t = tag \/ t = <<STAR>>

CurrentTag == uh_file_mktag(request.stat)

NotModifiedCode == IF request.method \in {UH_HTTP_MSG_GET, UH_HTTP_MSG_HEAD} THEN 304 ELSE 412

\* The status of the first failing header in the order If-Modified-Since,
\* If-Match, If-Range, If-Unmodified-Since, If-None-Match; 200 when none fails.
ExpectedStatus ==
    LET h == request.headers
        mtime == request.stat.st_mtime
    IN  IF h["If-Modified-Since"].present
           /\ uh_file_date2unix(h["If-Modified-Since"]) >= mtime THEN 304
        ELSE IF h["If-Match"].present
                /\ ~AnyTokenMatches(h["If-Match"].v, CurrentTag) THEN 412
        ELSE IF h["If-Range"].present THEN 412
        ELSE IF h["If-Unmodified-Since"].present
                /\ uh_file_date2unix(h["If-Unmodified-Since"]) <= mtime THEN 412
        ELSE IF h["If-None-Match"].present
                /\ AnyTokenMatches(h["If-None-Match"].v, CurrentTag) THEN NotModifiedCode
        ELSE 200

\* the response starts with a status line of this code
StartsWith(code) == wire # <<>> /\ IsStatus(wire[1]) /\ wire[1].num = code

\* C2: in one call of uh_file_request at most one status line is handed to
\* the socket, and nothing precedes it, whatever the headers, the method, the
\* version and the outcome of the sends; when If-None-Match matches the
\* current tag and If-Modified-Since says unmodified, the response is the 304
\* and, if every send writes its bytes, it is written whole and once.
C2_SingleResponse ==
    /\ \A i \in 1 .. Len(wire) : IsStatus(wire[i]) => i = 1
    /\ ( /\ RegularOpened
         /\ request.headers["If-None-Match"].present
         /\ AnyTokenMatches(request.headers["If-None-Match"].v, CurrentTag)
         /\ request.headers["If-Modified-Since"].present
         /\ uh_file_date2unix(request.headers["If-Modified-Since"])
              >= request.stat.st_mtime )
       => /\ StartsWith(304)
          /\ AllWritten =>
               /\ Len(wire) = 6
               /\ wire[Len(wire)].what = "blank"
               /\ Len(SelectSeq(wire, IsStatus)) = 1

\* C2's case: both If-None-Match and If-Modified-Since would answer 304, the
\* request carries a failing If-Match too, and the handler answered once.
C2_Witness ==
    /\ RegularOpened
    /\ request.headers["If-None-Match"] = Text(TheTag)
    /\ request.headers["If-Modified-Since"] = Date(5)
    /\ request.headers["If-Match"] = Text(OtherTag)
    /\ StartsWith(304)
    /\ AllWritten
    /\ Len(wire) = 6

\* C3, as claimed: for a regular file the response is that of the first
\* failing header in the order If-Modified-Since, If-Match, If-Range,
\* If-Unmodified-Since, If-None-Match, where If-Match fails when no token of
\* its list matches and If-None-Match fails when some token of its list
\* matches; 200 is sent only when none fails.
C3_ConditionalOrder == RegularOpened => StartsWith(ExpectedStatus)

NoSeparator(v) == \A i \in 1 .. Len(v) : v[i] # COMMA /\ v[i] # SP

SingleTokens ==
    /\ NoSeparator(request.headers["If-Match"].v)
    /\ NoSeparator(request.headers["If-None-Match"].v)

IfModifiedSinceFails ==
    /\ request.headers["If-Modified-Since"].present
    /\ uh_file_date2unix(request.headers["If-Modified-Since"]) >= request.stat.st_mtime

\* C3 for requests whose If-Match and If-None-Match hold one token: the
\* response is that of the first failing header.
C3_OrderSingleTokens == (RegularOpened /\ SingleTokens) => StartsWith(ExpectedStatus)

\* C3, no later header is evaluated: the token loops write to the value they
\* scan, and the values that come after the header that answered are as the
\* request had them.
C3_LaterHeadersUntouched ==
    RegularOpened =>
        /\ IfModifiedSinceFails => headers = request.headers
        /\ (request.headers["If-Match"].present /\ StartsWith(412)) =>
               headers["If-None-Match"] = request.headers["If-None-Match"]

\* C4, as claimed: with no other conditional header in the request, If-Match
\* passes (200) when some token of its list is the tag or "*", at any position
\* and for any number of tokens, and fails with 412 only when none is.
C4_IfMatchTokens ==
    ( /\ RegularOpened
      /\ request.headers = Headers(AbsentDate, request.headers["If-Match"], Absent,
                                   AbsentDate, Absent)
      /\ request.headers["If-Match"].present )
    => IF AnyTokenMatches(request.headers["If-Match"].v, CurrentTag)
       THEN StartsWith(200)
       ELSE StartsWith(412)

\* C5, as claimed: with no other conditional header in the request,
\* If-None-Match fails when some token of its list is the tag or "*", at any
\* position and for any number of tokens, with 304 for GET and HEAD and 412 for
\* the other methods, and passes (200) only when none is.
C5_IfNoneMatchTokens ==
    ( /\ RegularOpened
      /\ request.headers = Headers(AbsentDate, Absent, Absent, AbsentDate,
                                   request.headers["If-None-Match"])
      /\ request.headers["If-None-Match"].present )
    => IF AnyTokenMatches(request.headers["If-None-Match"].v, CurrentTag)
       THEN StartsWith(NotModifiedCode)
       ELSE StartsWith(200)

Pieces(what) == SelectSeq(wire, LAMBDA e : e.what = what)

\* C6, as claimed: a request for a regular file that passes the preconditions
\* gets 200 with a Content-Length equal to st_size; Transfer-Encoding: chunked
\* is there exactly when the version is HTTP/1.1 and the method is not HEAD;
\* for HEAD nothing follows the blank line.
C6_FileFraming ==
    ( /\ RegularOpened
      /\ SingleTokens
      /\ ExpectedStatus = 200
      /\ request.fault = NoFault )
    => /\ StartsWith(200)
       /\ Len(Pieces("Content-Length")) = 1
       /\ request.stat.st_size.hi = 0
       /\ Pieces("Content-Length")[1].num = request.stat.st_size.lo
       /\ Len(Pieces("Transfer-Encoding")) =
            (IF request.version = UH_HTTP_VER_1_1 /\ request.method # UH_HTTP_MSG_HEAD
             THEN 1 ELSE 0)
       /\ request.method = UH_HTTP_MSG_HEAD => wire[Len(wire)].what = "blank"

\* C6 without the 32-bit cut: the same for a file below 2 GiB on an ABI whose
\* "%i" reads the low word of the off_t.
C6_FramingBelow2G ==
    ( /\ RegularOpened
      /\ SingleTokens
      /\ ExpectedStatus = 200
      /\ request.fault = NoFault
      /\ request.stat.st_size.hi = 0
      /\ request.word = "low" )
    => /\ StartsWith(200)
       /\ Len(Pieces("Content-Length")) = 1
       /\ Pieces("Content-Length")[1].num = request.stat.st_size.lo
       /\ Len(Pieces("Transfer-Encoding")) =
            (IF request.version = UH_HTTP_VER_1_1 /\ request.method # UH_HTTP_MSG_HEAD
             THEN 1 ELSE 0)
       /\ request.method = UH_HTTP_MSG_HEAD => wire[Len(wire)].what = "blank"

RECURSIVE Bytes(_)
\* the bytes of a sequence of pieces, in order
Bytes(q) == IF q = <<>> THEN <<>> ELSE Head(q).data \o Bytes(Tail(q))

\* offset of the piece that ends the header section, 0 if there is none
BlankAt == IF \E i \in 1 .. Len(wire) : wire[i].what = "blank"
           THEN CHOOSE i \in 1 .. Len(wire) : wire[i].what = "blank"
           ELSE 0

Body == SubSeq(wire, BlankAt + 1, Len(wire))

RECURSIVE Chunked(_, _)
\* content cut at the given lengths, each part as size in hex, CRLF, the
\* part, CRLF
Chunked(content, reads) ==
    IF reads = <<>> THEN <<>>
    ELSE Hex(Head(reads), TRUE) \o CRLF \o SubSeq(content, 1, Head(reads)) \o CRLF
         \o Chunked(SubSeq(content, Head(reads) + 1, Len(content)), Tail(reads))

LastChunk == <<48>> \o CRLF \o CRLF

\* C7: for a request other than HEAD for a regular file that passes the
\* preconditions, with every read and send succeeding, what follows the header
\* section is, under HTTP/1.1, one chunk per read in read order and then the
\* terminator 0 CRLF CRLF, once and last, also for an empty file; under
\* HTTP/1.0 and 0.9 it is the bytes read, in order, and no terminator; the
\* payload is the file content in both cases.
C7_BodyStream ==
    ( /\ RegularOpened
      /\ SingleTokens
      /\ ExpectedStatus = 200
      /\ request.method # UH_HTTP_MSG_HEAD
      /\ request.fault = NoFault
      /\ Sum(request.reads) = Len(request.content) )
    => /\ BlankAt > 0
       /\ IF request.version = UH_HTTP_VER_1_1
          THEN /\ Bytes(Body) = Chunked(request.content, request.reads) \o LastChunk
               /\ Len(Pieces("chunk-data")) = Len(request.reads)
               /\ Bytes(Pieces("chunk-data")) = request.content
               /\ Len(Pieces("last-chunk")) = 1
               /\ wire[Len(wire)].what = "last-chunk"
          ELSE /\ Bytes(Body) = request.content
               /\ Len(Body) = Len(request.reads)
               /\ \A i \in 1 .. Len(Body) : Body[i].what = "data"
               /\ Len(Pieces("last-chunk")) = 0

\* C7's case: a three-byte file read as two bytes and one byte was sent over
\* HTTP/1.1 in two chunks and the terminator.
C7_Witness ==
    /\ RegularOpened
    /\ request.method = UH_HTTP_MSG_GET
    /\ request.version = UH_HTTP_VER_1_1
    /\ request.fault = NoFault
    /\ request.reads = <<2, 1>>
    /\ Len(request.content) = 3
    /\ Len(Pieces("chunk-data")) = 2
    /\ wire[Len(wire)].what = "last-chunk"

\* The position of the send that writes the blank line ending the headers,
\* 0 when it was not reached.
HeadEnd ==
    IF \E i \in 1 .. Len(wire) : wire[i].what \in {"blank", "Content-Type+blank"}
    THEN CHOOSE i \in 1 .. Len(wire) :
            /\ wire[i].what \in {"blank", "Content-Type+blank"}
            /\ \A j \in 1 .. (i - 1) : wire[j].what \notin {"blank", "Content-Type+blank"}
    ELSE 0

\* The header lines written before the blank line; the 412 status goes out
\* together with its Connection header.
HeadLines ==
    { wire[i].what : i \in 2 .. (HeadEnd - 1) }
       \cup (IF wire[1].what = "status+close" THEN {"Connection"} ELSE {})

\* the response's head went out whole, with status code
HeadSent(code) == Served /\ HeadEnd > 0 /\ AllWritten /\ StartsWith(code)

\* C15, as claimed: every 200 and 304 response of the file handler, for a
\* regular file and for a directory listing alike, has the header lines
\* Connection: close, ETag, Last-Modified and Date before the blank line; a
\* 412 response has Connection: close and none of the other three.
C15_HeadersByStatus ==
    /\ (HeadSent(200) \/ HeadSent(304)) =>
           {"Connection", "ETag", "Last-Modified", "Date"} \subseteq HeadLines
    /\ HeadSent(412) =>
           HeadLines \cap {"Connection", "ETag", "Last-Modified", "Date"} = {"Connection"}

\* What holds: the 200 and 304 responses for a regular file have the four
\* header lines and the 412 response has Connection: close alone; the 200
\* response of a directory listing has Connection: close and Date, and
\* neither ETag nor Last-Modified.
C15_HeadersOfFilesAndListings ==
    /\ ((HeadSent(200) \/ HeadSent(304)) /\ request.stat.st_mode = "reg") =>
           {"Connection", "ETag", "Last-Modified", "Date"} \subseteq HeadLines
    /\ (HeadSent(200) /\ request.stat.st_mode = "dir") =>
           HeadLines \cap {"Connection", "ETag", "Last-Modified", "Date"}
              = {"Connection", "Date"}
    /\ HeadSent(412) =>
           HeadLines \cap {"Connection", "ETag", "Last-Modified", "Date"} = {"Connection"}

\* The case C15 fails on: a directory listing went out with status 200.
C15_ListingSent ==
    /\ HeadSent(200)
    /\ request.stat.st_mode = "dir"
    /\ "ETag" \notin HeadLines

-----------------------------------------------------------------------------
(* Properties of basic authentication.                                     *)

Checked == auth.ret # -1

Lower(c) == IF c >= 65 /\ c <= 90 THEN c + 32 ELSE c

\* path is a prefix of name, letter case aside
IsCaseInsensitivePrefix(path, name) ==
    /\ Len(path) <= Len(name)
    /\ \A i \in 1 .. Len(path) : Lower(path[i]) = Lower(name[i])

Covers(realm) == IsCaseInsensitivePrefix(realm.path, auth.name)

Covered == \E i \in 1 .. Len(uh_realms) : Covers(uh_realms[i])

\* the verifier of the realm is the password, or its crypt under the verifier
Verifies(realm, pass) == realm.pass = pass \/ crypt(pass, realm.pass) = realm.pass

\* the realm left in req->realm
Adopted == IF auth.realm > 0 THEN uh_realms[auth.realm] ELSE NoRealm

\* C8: uh_auth_check returns 1 exactly when no registered realm covers the
\* name, or the request carries Basic credentials user:pass and the realm
\* adopted for that name and that user has a verifier that is pass or
\* crypt(pass, verifier); in every other case it returns 0.
C8_AuthGate ==
    Checked =>
        /\ auth.ret \in {0, 1}
        /\ auth.ret = 1 <=>
              \/ ~Covered
              \/ /\ auth.creds.given
                 /\ auth.realm > 0
                 /\ Covers(Adopted)
                 /\ Adopted.user = auth.creds.user
                 /\ Verifies(Adopted, auth.creds.pass)
        /\ (Covered /\ ~auth.creds.given) => auth.ret = 0
        /\ (Covered /\ ~\E i \in 1 .. Len(uh_realms) :
                          Covers(uh_realms[i]) /\ uh_realms[i].user = auth.creds.user)
             => auth.ret = 0

\* C8's case: two realms cover the name, the request carries the credentials
\* of the user of one of them, whose verifier is a hash, and access is granted.
C8_Witness ==
    /\ Checked
    /\ Len(uh_realms) = 2
    /\ Covers(uh_realms[1]) /\ Covers(uh_realms[2])
    /\ uh_realms[1].user # uh_realms[2].user
    /\ auth.creds.given
    /\ Adopted.user = auth.creds.user
    /\ Adopted.pass # auth.creds.pass
    /\ crypt(auth.creds.pass, Adopted.pass) = Adopted.pass
    /\ auth.ret = 1

\* C8's other case: the name is covered, the password is wrong, access is denied.
C8_WitnessDenied ==
    /\ Checked /\ Covered /\ auth.creds.given
    /\ Adopted.user = auth.creds.user
    /\ ~Verifies(Adopted, auth.creds.pass)
    /\ auth.ret = 0 /\ auth.sent401

\* the realms that cover the name, in the order uh_auth_add linked them
CoveringInOrder == SelectSeq(realms_added, Covers)

\* those of them that carry the user name of the request
CoveringForUser == SelectSeq(CoveringInOrder, LAMBDA r : r.user = auth.creds.user)

\* C9, as claimed: the realms are scanned in the order of their uh_auth_add
\* calls: of the realms that cover the name the one added first is adopted as
\* req->realm, and when the request has credentials, of those that also carry
\* its user name the one added first is adopted and its verifier checked.
C9_RealmScanOrder ==
    (Checked /\ CoveringInOrder # <<>>) =>
        IF auth.creds.given /\ CoveringForUser # <<>>
        THEN /\ Adopted = Head(CoveringForUser)
             /\ auth.ret = 1 <=> Verifies(Head(CoveringForUser), auth.creds.pass)
        ELSE Adopted = Head(CoveringInOrder)

\* What the scan does instead: the realm added last is the one adopted.
C9_LastAddedAdopted ==
    (Checked /\ CoveringInOrder # <<>>) =>
        IF auth.creds.given /\ CoveringForUser # <<>>
        THEN /\ Adopted = CoveringForUser[Len(CoveringForUser)]
             /\ auth.ret = 1 <=>
                  Verifies(CoveringForUser[Len(CoveringForUser)], auth.creds.pass)
        ELSE Adopted = CoveringInOrder[Len(CoveringInOrder)]

\* The 1-based offset of the first occurrence of sub in b, 0 for none.
FindSub(b, sub) ==
    IF \E i \in 1 .. (Len(b) - Len(sub) + 1) : SubSeq(b, i, i + Len(sub) - 1) = sub
    THEN CHOOSE i \in 1 .. (Len(b) - Len(sub) + 1) :
            /\ SubSeq(b, i, i + Len(sub) - 1) = sub
            /\ \A j \in 1 .. (i - 1) : SubSeq(b, j, j + Len(sub) - 1) # sub
    ELSE 0

\* A message read as a receiver does: the head up to the first blank line,
\* and the body after it.
HeadOf(b) == SubSeq(b, 1, FindSub(b, CRLF \o CRLF) - 1)

BodyOf(b) == SubSeq(b, FindSub(b, CRLF \o CRLF) + 4, Len(b))

\* the first line of a head, and whether line is one of the later ones
StatusLineOf(head) ==
    IF FindSub(head, CRLF) = 0 THEN head ELSE SubSeq(head, 1, FindSub(head, CRLF) - 1)

HasHeaderLine(head, line) ==
    \E i \in 1 .. Len(head) :
        /\ SubSeq(head, i, i + 1) = CRLF
        /\ SubSeq(head, i + 2, i + 1 + Len(line)) = line
        /\ (i + 1 + Len(line) = Len(head)
            \/ SubSeq(head, i + 2 + Len(line), i + 3 + Len(line)) = CRLF)

RECURSIVE DecimalOf(_)
\* the number a string of digits stands for
DecimalOf(d) == IF d = <<>> THEN 0 ELSE 10 * DecimalOf(SubSeq(d, 1, Len(d) - 1)) + (d[Len(d)] - 48)

\* "Content-Length: "
ContentLengthName == <<67, 111, 110, 116, 101, 110, 116, 45, 76, 101, 110, 103, 116, 104, 58, 32>>

\* the value of the Content-Length line of a head, -1 without such a line
ContentLengthOf(head) ==
    IF FindSub(head, CRLF \o ContentLengthName) = 0 THEN -1
    ELSE LET v == SubSeq(head, FindSub(head, CRLF \o ContentLengthName) + 2 + Len(ContentLengthName),
                         Len(head))
         IN  DecimalOf(IF FindSub(v, CRLF) = 0 THEN v ELSE SubSeq(v, 1, FindSub(v, CRLF) - 1))

\* C16: when uh_auth_check denies access it hands one buffer to the socket,
\* unchunked: the status line "<HTTP version of the request> 401
\* Authorization Required", the header WWW-Authenticate: Basic
\* realm="<conf->realm>", and after the blank line the 23 bytes
\* "Authorization Required\n", as many as Content-Length says; when it
\* grants access it sends nothing.
C16_Challenge ==
    /\ (Checked /\ auth.ret = 0) =>
          /\ Len(auth.out) = 1
          /\ StatusLineOf(HeadOf(auth.out[1].data))
                = http_versions[auth.version + 1]
                    \o <<32, 52, 48, 49, 32>> \o SubSeq(Body401, 1, 22)
          /\ HasHeaderLine(HeadOf(auth.out[1].data),
                           Challenge401 \o auth.conf_realm \o <<DQUOTE>>)
          /\ BodyOf(auth.out[1].data) = Body401
          /\ Len(BodyOf(auth.out[1].data)) = 23
          /\ ContentLengthOf(HeadOf(auth.out[1].data)) = Len(BodyOf(auth.out[1].data))
    /\ (Checked /\ auth.ret = 1) => auth.out = <<>>

\* A request with a wrong password for a covered name was answered with the
\* 401 under HTTP/1.1, and the realm string is "r".
C16_Witness ==
    /\ Checked
    /\ auth.ret = 0
    /\ auth.creds.given
    /\ auth.version = UH_HTTP_VER_1_1
    /\ auth.conf_realm = <<114>>
    /\ Len(auth.out) = 1
    /\ Len(auth.out[1].data) > 23

\* A request that was let through: nothing was sent.
C16_WitnessGranted == Checked /\ auth.ret = 1 /\ auth.realm # 0 /\ auth.out = <<>>

\* the realms among which the check has to choose: those that cover the
\* name, and carry the user name when the request has credentials for one
Candidates ==
    IF auth.creds.given /\ CoveringForUser # <<>> THEN CoveringForUser ELSE CoveringInOrder

\* realm r has the longest path of the candidates
HasLongestPath(r) ==
    \A i \in 1 .. Len(Candidates) : Len(Candidates[i].path) <= Len(r.path)

\* C17, as claimed: when several registered realms cover the requested name,
\* the realm uh_auth_check leaves in req->realm and whose verifier it checks
\* is the one with the longest path, never a shorter covering realm.
C17_LongestPath ==
    (Checked /\ CoveringInOrder # <<>>) =>
        /\ HasLongestPath(Adopted)
        /\ (auth.creds.given /\ CoveringForUser # <<>>) =>
              (auth.ret = 1 <=>
                  \E i \in 1 .. Len(Candidates) :
                      /\ HasLongestPath(Candidates[i])
                      /\ Verifies(Candidates[i], auth.creds.pass))

\* The case C17 fails on: "/A/b" was added, then "/a" for the same user with
\* another verifier; the request for /A/B carries the password of "/A/b" and
\* is denied against the verifier of "/a".
C17_ShorterAdopted ==
    /\ Checked
    /\ Len(CoveringForUser) = 2
    /\ Len(CoveringForUser[1].path) > Len(CoveringForUser[2].path)
    /\ auth.creds.given
    /\ Verifies(CoveringForUser[1], auth.creds.pass)
    /\ Adopted = CoveringForUser[2]
    /\ auth.ret = 0

\* What the check does: it takes the candidates in list order, so the path
\* lengths play no part; the longest path is adopted whenever the realm with
\* it is the candidate added last.
C17_LongestOnlyWhenAddedLast ==
    (Checked /\ CoveringInOrder # <<>>) =>
        (HasLongestPath(Candidates[Len(Candidates)]) => HasLongestPath(Adopted))

\* the header is named Authorization, in any letter case
NamedAuthorization(h) ==
    /\ Len(h.name) = Len(Authorization)
    /\ \A i \in 1 .. Len(h.name) : Lower(h.name[i]) = Lower(Authorization[i])

\* the value of the header begins with the six bytes "Basic "
BeginsWithBasic(h) == Len(h.value) >= 6 /\ SubSeq(h.value, 1, 6) = <<66, 97, 115, 105, 99, 32>>

\* the value begins with "Basic " written in another letter case
BeginsWithBasicInOtherCase(h) ==
    /\ Len(h.value) >= 6
    /\ ~BeginsWithBasic(h)
    /\ \A i \in 1 .. 6 : Lower(h.value[i]) = <<98, 97, 115, 105, 99, 32>>[i]

\* C27: the scheme of the Authorization header is matched with its letter
\* case, the header name without: a request for a covered name none of whose
\* Authorization headers has a value that begins with "Basic " carries no
\* credentials and is answered with the 401.
C27_BasicSchemeMatching ==
    (/\ Checked /\ Covered
     /\ \A i \in 1 .. Len(auth.hdrs) :
            NamedAuthorization(auth.hdrs[i]) => ~BeginsWithBasic(auth.hdrs[i]))
        => auth.ret = 0 /\ auth.sent401

\* What holds: the header name and the scheme are both matched without
\* their letter case, so the check of a covered name fails when no
\* Authorization header has a value that begins with "Basic " in some
\* letter case.
C27_SchemeInAnyCase ==
    (/\ Checked /\ Covered
     /\ \A i \in 1 .. Len(auth.hdrs) :
            NamedAuthorization(auth.hdrs[i]) =>
                ~BeginsWithBasic(auth.hdrs[i]) /\ ~BeginsWithBasicInOtherCase(auth.hdrs[i]))
        => auth.ret = 0 /\ auth.sent401

\* The case C27 fails on: the only header of the request is an Authorization
\* header whose scheme is written "basic " or "BASIC ", and the check of a
\* covered name lets the request pass.
C27_OtherCaseAccepted ==
    /\ Checked /\ Covered
    /\ Len(auth.hdrs) = 1
    /\ NamedAuthorization(auth.hdrs[1])
    /\ BeginsWithBasicInOtherCase(auth.hdrs[1])
    /\ auth.ret = 1
    /\ ~auth.sent401

\* Where the name of the header is in lower case and the scheme is "Basic ",
\* the credentials are used.
C27_LowerCaseName ==
    /\ Checked /\ Covered
    /\ Len(auth.hdrs) = 1
    /\ auth.hdrs[1].name # Authorization
    /\ NamedAuthorization(auth.hdrs[1])
    /\ BeginsWithBasic(auth.hdrs[1])
    /\ auth.ret = 1

-----------------------------------------------------------------------------
(* Properties of the client registry.                                      *)

\* uh_client_lookup of the client's socket returns the client
InRegistry(c) == uh_client_lookup(uh_clients, c.fd.fd) = c.addr

\* C13, as claimed: in every state reached by uh_client_add, uh_ufd_add,
\* uh_ufd_remove, uh_client_remove and uh_client_shutdown calls, a client is
\* in the registry exactly when its connection descriptor is registered with
\* the event loop.
C13_RegistryIffPolled ==
    \A i \in 1 .. Len(uh_clients) :
        InRegistry(uh_clients[i]) <=> uh_clients[i].fd.registered

\* What holds: a connection descriptor the event loop polls belongs to a
\* client of the registry, and a client that was removed has had its
\* descriptors taken from the event loop and closed.
C13_PolledIsListed ==
    /\ \A i \in 1 .. Len(uh_clients) :
           uh_clients[i].fd.registered => InRegistry(uh_clients[i])
    /\ \A serv \in Listeners :
           n_clients[serv] = Cardinality({i \in 1 .. Len(uh_clients) : uh_clients[i].server = serv})

\* The case C13 fails on: uh_client_add has returned a client that
\* uh_client_lookup finds and the event loop does not poll.
C13_ListedNotPolled ==
    /\ client_op.op = "uh_client_add"
    /\ client_op.cl # NULL
    /\ uh_client_lookup(uh_clients, Head(uh_clients).fd.fd) = client_op.cl
    /\ ~Head(uh_clients).fd.registered

\* The pointer cl is not the address of a client of the registry.
NotListed(cl) == \A i \in 1 .. Len(uh_clients) : uh_clients[i].addr # cl

\* C14: a uh_client_remove(cl) call for a client that was removed before, or
\* for any cl that is not in the registry, changes nothing: the list, the
\* descriptors of every registered client and n_clients stay as they are,
\* nothing is closed, taken from the event loop or freed.
C14_RemoveAgainNoOp ==
    [][\A cl \in Addrs :
          (NotListed(cl) /\ client_op'.op = "uh_client_remove" /\ client_op'.cl = cl) =>
              /\ UNCHANGED <<uh_clients, n_clients, released>>
              /\ client_op'.closed = <<>>
              /\ client_op'.deleted = <<>>
              /\ client_op'.freed = <<>>
              /\ client_op'.counted = 0]_vars

\* uh_client_remove was called a second time for a client already removed,
\* while another client is registered and polled.
C14_Witness ==
    /\ client_op.op = "uh_client_remove"
    /\ client_op.cl \in released
    /\ NotListed(client_op.cl)
    /\ client_op.freed = <<>>
    /\ Len(uh_clients) > 0
    /\ Head(uh_clients).fd.registered

\* the values of the sequence s
Values(s) == {s[i] : i \in 1 .. Len(s)}

\* The call that has just returned was uh_client_remove(cur) or
\* uh_client_shutdown(cur).
Removes(cur) ==
    /\ client_op'.op \in {"uh_client_remove", "uh_client_shutdown"}
    /\ client_op'.cl = cur.addr

\* C26: uh_client_remove, and uh_client_shutdown, of a registered client
\* takes it out of the list, cancels its timeout if one is pending, deletes
\* its child-process record if it has one, takes its connection descriptor
\* and both pipes from the event loop and closes them, and frees it;
\* uh_client_shutdown calls the TLS close hook before all that when TLS is
\* configured. Afterwards uh_client_lookup of its socket finds no client,
\* and every other client is in the list as it was.
C26_RemoveReleases ==
    [][\A i \in 1 .. Len(uh_clients) :
          Removes(uh_clients[i]) =>
              LET cur == uh_clients[i]
                  did == client_op'.did
              IN  /\ uh_clients' = client_unlink(uh_clients, i)
                  /\ \A j \in 1 .. Len(uh_clients') : uh_clients'[j].addr # cur.addr
                  /\ cur.timeout <=> "uloop_timeout_cancel" \in Values(did)
                  /\ cur.proc # 0 <=> "uloop_process_delete" \in Values(did)
                  /\ \A m \in {"fd", "rpipe", "wpipe"} :
                         /\ cur[m].fd > -1 => cur[m].fd \in Values(client_op'.closed)
                         /\ cur[m].registered => cur[m].fd \in Values(client_op'.deleted)
                  /\ client_op'.freed = <<cur.addr>>
                  /\ cur.addr \in released'
                  /\ client_op'.tls <=>
                         (client_op'.op = "uh_client_shutdown" /\ did # <<>>
                            /\ Head(did) = "tls_close")
                  /\ "tls_close" \notin Values(IF did = <<>> THEN <<>> ELSE Tail(did))
                  /\ cur.fd.fd > -1 => uh_client_lookup(uh_clients', cur.fd.fd) = NULL]_vars

\* uh_client_shutdown, with TLS configured, has removed a client that had a
\* pending timeout, a child process and both pipes open, and another client
\* is still registered with its descriptor polled.
C26_Witness ==
    /\ client_op.op = "uh_client_shutdown"
    /\ client_op.did = <<"tls_close", "uloop_timeout_cancel", "uloop_process_delete">>
    /\ Len(client_op.closed) = 3
    /\ client_op.deleted # <<>>
    /\ client_op.freed # <<>>
    /\ Len(uh_clients) > 0
    /\ Head(uh_clients).fd.registered
    /\ Head(uh_clients).fd.fd > -1

\* the clients of the registry whose server is the listener serv
ClientsOf(serv) == {i \in 1 .. Len(uh_clients) : uh_clients[i].server = serv}

\* C28: after any sequence of uh_client_add, uh_client_remove and
\* uh_client_shutdown calls, repeated removes of one client and the reuse of
\* a socket number among them, n_clients of every listener is the number of
\* clients of the registry whose server is that listener, and is not
\* negative.
C28_ClientCount ==
    \A serv \in Listeners :
        /\ n_clients[serv] = Cardinality(ClientsOf(serv))
        /\ n_clients[serv] >= 0

\* A client of one listener was removed a second time while a client of
\* another listener, accepted later, is registered: the first listener counts
\* no client and the other counts one.
C28_Witness ==
    /\ client_op.op = "uh_client_remove"
    /\ client_op.cl \in released
    /\ NotListed(client_op.cl)
    /\ client_op.counted = 0
    /\ \E serv \in Listeners :
          /\ n_clients[serv] = 0
          /\ \E other \in Listeners \ {serv} :
                /\ n_clients[other] = 1
                /\ ClientsOf(other) # {}

-----------------------------------------------------------------------------
(* Properties of the encoders and decoders.                                *)

IsUpperHexDigit(c) == (c >= 48 /\ c <= 57) \/ (c >= 65 /\ c <= 70)

RECURSIVE UpperHexValue(_)
\* the number a string of uppercase hex digits stands for
UpperHexValue(d) ==
    IF d = <<>> THEN 0
    ELSE 16 * UpperHexValue(SubSeq(d, 1, Len(d) - 1))
           + (IF d[Len(d)] <= 57 THEN d[Len(d)] - 48 ELSE d[Len(d)] - 55)

\* line is the chunk-size line of a chunk of n > 0 bytes: n in uppercase hex
\* without leading zeros, then CRLF
IsSizeLine(line, n) ==
    /\ Len(line) >= 3
    /\ SubSeq(line, Len(line) - 1, Len(line)) = CRLF
    /\ \A i \in 1 .. (Len(line) - 2) : IsUpperHexDigit(line[i])
    /\ line[1] # 48
    /\ UpperHexValue(SubSeq(line, 1, Len(line) - 2)) = n

\* the length uh_http_sendc works with
LengthOf(payload) == IF payload.len = -1 THEN strlen(payload.data) ELSE payload.len

RECURSIVE ChunksAsClaimed(_, _)
\* out is what the claim has written for the payloads ps and the final
\* uh_http_sendc(cl, NULL, 0)
ChunksAsClaimed(ps, out) ==
    IF ps = <<>> THEN Len(out) = 1 /\ out[1].data = LastChunk
    ELSE IF LengthOf(Head(ps)) > 0
    THEN /\ Len(out) > 3
         /\ IsSizeLine(out[1].data, LengthOf(Head(ps)))
         /\ out[2].num = LengthOf(Head(ps))
         /\ out[2].data = Head(ps).data
         /\ out[3].data = CRLF
         /\ ChunksAsClaimed(Tail(ps), SubSeq(out, 4, Len(out)))
    ELSE /\ Len(out) > 1
         /\ out[1].data = LastChunk
         /\ ChunksAsClaimed(Tail(ps), Tail(out))

RECURSIVE Dechunk(_, _)
\* A chunked body read as a receiver reads it: size line, that many bytes,
\* CRLF, up to the chunk of size 0. ok tells whether the stream is well
\* formed and ends right after the last chunk.
Dechunk(b, body) ==
    LET e == FindSub(b, CRLF)
        n == UpperHexValue(SubSeq(b, 1, e - 1))
    IN  IF e < 2 \/ \E i \in 1 .. (e - 1) : ~IsUpperHexDigit(b[i])
        THEN [ok |-> FALSE, body |-> body]
        ELSE IF n = 0
        THEN [ok |-> SubSeq(b, e + 2, Len(b)) = CRLF, body |-> body]
        ELSE IF Len(b) < e + 1 + n + 2 \/ SubSeq(b, e + 2 + n, e + 3 + n) # CRLF
        THEN [ok |-> FALSE, body |-> body]
        ELSE Dechunk(SubSeq(b, e + 4 + n, Len(b)), body \o SubSeq(b, e + 2, e + 1 + n))

RECURSIVE Concat(_)
Concat(ps) == IF ps = <<>> THEN <<>> ELSE Head(ps).data \o Concat(Tail(ps))

\* every payload is non-empty and the model holds all its bytes
WholePayloads(ps) ==
    \A i \in 1 .. Len(ps) : LengthOf(ps[i]) > 0 /\ LengthOf(ps[i]) = Len(ps[i].data)

Encoded == codec.op = "uh_http_sendc"

\* C18, as claimed: for every len > 0 uh_http_sendc writes len in uppercase
\* hex without leading zeros, CRLF, the len payload bytes and CRLF, and for
\* len = 0 only "0" CRLF CRLF; so what is written for a sequence of non-empty
\* payloads and the terminator decodes to the bytes of the payloads.
C18_ChunkEncoder ==
    Encoded =>
        /\ ChunksAsClaimed(codec.in, codec.out)
        /\ WholePayloads(codec.in) =>
              Dechunk(Bytes(codec.out), <<>>) = [ok |-> TRUE, body |-> Concat(codec.in)]

\* every chunk size fits sizeof(chunk) with CRLF and the terminator: it has
\* at most five hex digits
SizesFit(ps) == \A i \in 1 .. Len(ps) : LengthOf(ps[i]) < 1048576

\* What holds: the encoder is as claimed for every len below 0x100000.
C18_EncoderBelow1M ==
    (Encoded /\ SizesFit(codec.in)) =>
        /\ ChunksAsClaimed(codec.in, codec.out)
        /\ WholePayloads(codec.in) =>
              Dechunk(Bytes(codec.out), <<>>) = [ok |-> TRUE, body |-> Concat(codec.in)]

\* The case C18 fails on: a chunk of 0x100000 bytes, whose size line went
\* out as "100000", CR and a NUL byte.
C18_SizeLineCut ==
    /\ Encoded
    /\ Len(codec.in) = 1
    /\ codec.in[1].len = 1048576
    /\ codec.out[1].data = <<49, 48, 48, 48, 48, 48, CR, NUL>>

\* chunks of 16 and of 10 bytes went out and decode to the 26 bytes sent
C18_RoundTrip ==
    /\ Encoded
    /\ Len(codec.in) = 2
    /\ codec.in[1].len = 16 /\ codec.in[2].len = 10
    /\ codec.out[1].data = <<49, 48>> \o CRLF
    /\ codec.out[4].data = <<65>> \o CRLF
    /\ Dechunk(Bytes(codec.out), <<>>).ok
    /\ Len(Dechunk(Bytes(codec.out), <<>>).body) = 26

RoundTripped == codec.op = "uh_urlencode"

IsUnreserved(c) ==
    \/ (c >= 48 /\ c <= 57) \/ (c >= 65 /\ c <= 90) \/ (c >= 97 /\ c <= 122)
    \/ c \in {45, 95, 46, 126}

\* the bytes the encoding of s takes: one for an unreserved byte, three for
\* any other
EncodedSize(s) ==
    Len(s) + 2 * Cardinality({ i \in 1 .. Len(s) : ~IsUnreserved(s[i]) })

\* C19: for a string s of unreserved characters and buffers that are large
\* enough, uh_urldecode of what uh_urlencode gives for s returns the length
\* of s and the bytes of s; with an output buffer that is too small each of
\* the two functions returns -1, never the length of a part.
C19_UrlRoundTrip ==
    RoundTripped =>
        LET s   == codec.in.s
            enc == codec.out.enc
            dec == codec.out.dec
        IN  /\ ( /\ \A i \in 1 .. Len(s) : IsUnreserved(s[i])
                 /\ codec.in.blen >= EncodedSize(s)
                 /\ codec.in.dlen >= Len(s) )
               => /\ enc.rv = Len(s)
                  /\ dec.rv = Len(s)
                  /\ dec.buf = s
            /\ codec.in.blen < EncodedSize(s) => enc.rv = -1
            /\ codec.in.blen >= EncodedSize(s) => enc.rv = EncodedSize(s)
            /\ (enc.rv >= 0 /\ codec.in.dlen < Len(s)) => dec.rv = -1
            /\ (enc.rv >= 0 /\ codec.in.dlen >= Len(s)) => (dec.rv = Len(s) /\ dec.buf = s)

\* the string "a-~" went through both functions with buffers of its size
C19_Witness ==
    /\ RoundTripped
    /\ codec.in = [s |-> <<97, 45, 126>>, blen |-> 3, dlen |-> 3]
    /\ codec.out.enc.rv = 3
    /\ codec.out.dec = [rv |-> 3, buf |-> <<97, 45, 126>>]

\* the encoder was given a buffer one byte short of "Z%2f" and returned -1;
\* the decoder was given one byte for "Z/" and returned -1
C19_WitnessTooSmall ==
    /\ RoundTripped
    /\ codec.in.s = <<90, 47>>
    /\ \/ codec.in.blen = 3 /\ codec.out.enc.rv = -1
       \/ codec.in.blen = 4 /\ codec.in.dlen = 1 /\ codec.out.dec.rv = -1

Canonicalized == codec.op = "canonpath" /\ codec.out.first.ok

NoDoubleSlash(s) == \A i \in 1 .. Len(s) - 1 : ~(s[i] = SLASH /\ s[i + 1] = SLASH)

NoDotSegment(s) ==
    \A i \in 2 .. Len(Split(s, <<>>)) : Split(s, <<>>)[i] \notin { <<DOT>>, <<DOT, DOT>> }

NoTrailingSlash(s) == s = <<SLASH>> \/ (s # <<>> /\ s[Len(s)] # SLASH)

IsCanonical(out) ==
    /\ out.again.ok
    /\ out.again.resolved = out.first.resolved
    /\ NoDoubleSlash(out.first.resolved)
    /\ NoDotSegment(out.first.resolved)
    /\ NoTrailingSlash(out.first.resolved)

\* C20: when canonpath returns a canonical form for an absolute path,
\* canonpath of that form returns the same string, byte for byte, and the
\* form has no "//", no "." or ".." segment, and no '/' at its end unless
\* it is "/".
C20_CanonIdempotent == Canonicalized => IsCanonical(codec.out)

\* the normalize loop reads every byte of the path
WholePathRead(path) == Len(path) <= PATH_MAX - 2

\* C20, for the paths the normalize loop reads to their end
C20_IdempotentWhenWholePathRead ==
    (Canonicalized /\ WholePathRead(codec.in)) => IsCanonical(codec.out)

\* The loop stopped inside the last segment of a path of PATH_MAX - 1 bytes:
\* the form is "/w/." and canonpath of it gives "/w".
C20_SegmentCut ==
    /\ Canonicalized
    /\ Len(codec.in) = PATH_MAX - 1
    /\ codec.out.first.resolved = Join(<<seg_w>>) \o <<SLASH, DOT>>
    /\ codec.out.again = [ok |-> TRUE, resolved |-> Join(<<seg_w>>)]

\* "/w/./d/../d//" became "/w/d", and "/w/d" stayed "/w/d"
C20_ShortCanonical ==
    /\ Canonicalized
    /\ codec.in = Join(<<seg_w, <<DOT>>, seg_d>>) \o <<SLASH>>
    /\ codec.out.first.resolved = Join(<<seg_w, seg_d>>)
    /\ IsCanonical(codec.out)

Tagged == codec.op = "uh_file_mktag"

SameInode(s1, s2) == s1.st_ino = s2.st_ino /\ s1.st_ino_hi = s2.st_ino_hi

SameMtime(s1, s2) == s1.st_mtime = s2.st_mtime /\ s1.st_mtime_hi = s2.st_mtime_hi

\* C21: two stats with equal inode, size and mtime get equal entity tags,
\* and two stats of one file (equal inode) that differ in mtime get different
\* tags, whatever the values of the fields.
C21_TagStability ==
    Tagged =>
        /\ ( /\ SameInode(codec.in[1], codec.in[2])
             /\ codec.in[1].st_size = codec.in[2].st_size
             /\ SameMtime(codec.in[1], codec.in[2]) )
           => codec.out[1] = codec.out[2]
        /\ (SameInode(codec.in[1], codec.in[2]) /\ ~SameMtime(codec.in[1], codec.in[2]))
           => codec.out[1] # codec.out[2]

SameLowWords(s1, s2) ==
    /\ s1.st_ino = s2.st_ino
    /\ s1.st_size.lo = s2.st_size.lo
    /\ s1.st_mtime = s2.st_mtime

\* C21, as the code has it: the tags of two stats are equal exactly when the
\* low 32 bits of inode, size and mtime are.
C21_TagOfLowWords ==
    Tagged => (codec.out[1] = codec.out[2] <=> SameLowWords(codec.in[1], codec.in[2]))

\* a file modified at time 5 and touched to time 2^32 + 5 has kept its tag
C21_TouchedSameTag ==
    /\ Tagged
    /\ codec.in[1] = Stat("reg", OffT(1), 5)
    /\ codec.in[2] = [Stat("reg", OffT(1), 5) EXCEPT !.st_mtime_hi = 1]
    /\ codec.out[1] = codec.out[2]

\* a file modified at time 5 and touched to time 6 has changed its tag
C21_TouchedNewTag ==
    /\ Tagged
    /\ codec.in[1] = Stat("reg", OffT(1), 5)
    /\ codec.in[2] = Stat("reg", OffT(1), 6)
    /\ codec.out[1] # codec.out[2]

\* uh_http_sendf or uh_http_sendhf has sent a formatted text
Formatted == codec.op = "uh_http_sendf"

\* the text the format expanded to
FormattedText == codec.in[2]

\* the bytes vsnprintf stored in the buffer of UH_LIMIT_MSGHEAD bytes: the
\* text, or the part of it that fits, and the terminator
StoredBytes == Min(Len(FormattedText), UH_LIMIT_MSGHEAD - 1) + 1

\* the send of the bytes of the buffer
IsBufferSend(e) == e.what \in {"formatted", "chunk-data"}

\* C29: the send of uh_http_sendf and uh_http_sendhf that hands the buffer
\* to the send primitive hands it no more bytes than were stored in the
\* buffer, whatever the length of the formatted text.
C29_SendLengthBound ==
    Formatted =>
        \A i \in 1 .. Len(codec.out) :
            IsBufferSend(codec.out[i]) =>
                /\ codec.out[i].num <= StoredBytes
                /\ Len(codec.out[i].data) <= StoredBytes
                /\ \A j \in 1 .. Len(codec.out[i].data) : codec.out[i].data[j] # Unknown

\* What holds: the number of bytes handed over is the length of the text the
\* format expands to, and they are the bytes of the text as long as the text
\* is shorter than the buffer.
C29_SendsTextLength ==
    Formatted =>
        \A i \in 1 .. Len(codec.out) :
            IsBufferSend(codec.out[i]) =>
                /\ codec.out[i].num = Len(FormattedText)
                /\ Len(FormattedText) < UH_LIMIT_MSGHEAD => codec.out[i].data = FormattedText

\* The case C29 fails on: the item of a directory listing is longer than the
\* buffer, and the chunk that carries it has the length of the whole text.
C29_LongItem ==
    /\ Formatted
    /\ codec.in[1] = "chunked"
    /\ SubSeq(FormattedText, 1, Len(ItemHead)) = ItemHead
    /\ Len(FormattedText) > UH_LIMIT_MSGHEAD
    /\ \E i \in 1 .. Len(codec.out) :
          /\ codec.out[i].what = "chunk-data"
          /\ codec.out[i].num = Len(FormattedText)
          /\ codec.out[i].data[UH_LIMIT_MSGHEAD] = NUL
          /\ codec.out[i].data[UH_LIMIT_MSGHEAD + 1] = Unknown

\* A text that fills the buffer but for the terminator is sent whole.
C29_FullBuffer ==
    /\ Formatted
    /\ Len(FormattedText) = UH_LIMIT_MSGHEAD - 1
    /\ \E i \in 1 .. Len(codec.out) :
          IsBufferSend(codec.out[i]) /\ codec.out[i].data = FormattedText

-----------------------------------------------------------------------------
(* Properties of the handler's sends that fail.                            *)

Requested == request # NoRequest

\* the send with this number in wire returned -1
SendFailed(k) == k \in 1 .. Len(wire) /\ wire[k].rv = "err"

\* C22: when a send of uh_file_request or of a helper it calls returns
\* failure, the handler makes no further send, and it returns with the
\* descriptor it opened closed and the directory scan it made freed.
C22_FailurePropagation ==
    Requested =>
        /\ \A k \in 1 .. Len(wire) : SendFailed(k) => k = Len(wire)
        /\ cleanup.closed = cleanup.opened
        /\ cleanup.freed = cleanup.files

\* the third send of a file response failed: three sends were made and the
\* descriptor 3 of the file was closed
C22_Witness ==
    /\ Requested
    /\ request.fault = [at |-> 3, kind |-> "err"]
    /\ Len(wire) = 3 /\ SendFailed(3)
    /\ cleanup.opened = <<3>> /\ cleanup.closed = <<3>>

\* a send of a directory listing failed after scandir(): the scan was freed
C22_WitnessListing ==
    /\ Requested
    /\ S_IFDIR(request.stat.st_mode)
    /\ SendFailed(Len(wire))
    /\ cleanup.files /\ cleanup.freed

\* the send with this number in wire returned 0: the write under it did
SendClosed(k) == k \in 1 .. Len(wire) /\ wire[k].rv = "zero"

\* C23: once a send has returned 0 because the write under it returned 0,
\* the handler that was sending attempts no further write on the connection.
C23_ZeroWriteStops ==
    Requested => \A k \in 1 .. Len(wire) : SendClosed(k) => k = Len(wire)

\* C23, as the code has it: a send that returned 0 changes nothing in what
\* the handler sends after it; the sends are those of the call without it.
C23_ZeroWriteIgnored ==
    (Requested /\ request.fault.kind = "zero") =>
        /\ Len(wire) = Len(uh_file_request([request EXCEPT !.fault = NoFault]).em.log)
        /\ \A k \in 1 .. Len(wire) :
              [wire[k] EXCEPT !.rv = "ok"]
                  = uh_file_request([request EXCEPT !.fault = NoFault]).em.log[k]

\* the status line of a file response returned 0 and the handler sent on
C23_SentAfterZero ==
    /\ Requested
    /\ request.fault = [at |-> 1, kind |-> "zero"]
    /\ SendClosed(1)
    /\ Len(wire) > 1

-----------------------------------------------------------------------------
(* Properties of uh_tcp_send and uh_tcp_recv.                              *)

Sending == io.op = "uh_tcp_send"

Returned == io.op # "none" /\ io.pc = "ret"

\* the bytes the writes of a history took, in the order they took them
RECURSIVE AcceptedBytes(_, _)
AcceptedBytes(data, calls) ==
    IF calls = <<>> THEN <<>>
    ELSE IF Head(calls).fn = "write" /\ Head(calls).rv > 0
         THEN SubSeq(data, Head(calls).buf + 1, Head(calls).buf + Head(calls).rv)
                  \o AcceptedBytes(data, Tail(calls))
         ELSE AcceptedBytes(data, Tail(calls))

\* C23, the send primitive: a write that returned 0 is the last system call
\* of the send, which returns 0.
C23_ZeroReturnsAtOnce ==
    \A i \in 1 .. Len(io.calls) :
        (io.calls[i].fn = "write" /\ io.calls[i].rv = 0) =>
            (i = Len(io.calls) /\ Returned /\ io.ret = 0)

\* C24: a uh_tcp_send that returns a positive value has handed each byte of
\* its buffer to the write under it once and in order, whatever short
\* writes, EINTR and EAGAIN it met: every write is given the range that
\* starts behind the bytes taken so far and ends at the end of the buffer.
C24_ShortWriteOrdering ==
    Sending =>
        /\ \A i \in 1 .. Len(io.calls) :
              io.calls[i].fn = "write" =>
                  /\ io.calls[i].buf
                        = Len(AcceptedBytes(io.data, SubSeq(io.calls, 1, i - 1)))
                  /\ io.calls[i].len = Len(io.data) - io.calls[i].buf
        /\ (Returned /\ io.ret > 0) => AcceptedBytes(io.data, io.calls) = io.data

\* "abc" was sent by a write that took "a", a write that was interrupted, a
\* write that would block, a select that found the socket writable, and a
\* write that took "bc"
C24_Witness ==
    /\ Sending /\ Returned /\ io.ret > 0
    /\ io.data = <<97, 98, 99>>
    /\ Len(io.calls) = 5
    /\ io.calls[1].rv = 1
    /\ io.calls[2].errno = "EINTR"
    /\ io.calls[3].errno = "EAGAIN"
    /\ io.calls[4].fn = "select" /\ io.calls[4].rv = 1
    /\ io.calls[5].buf = 1 /\ io.calls[5].rv = 2

IsAttempt(c) == c.fn \in {"write", "read"}

\* the seconds spent in the selects that end with the i-th system call and
\* follow each other
RECURSIVE Waited(_, _)
Waited(calls, i) ==
    IF i = 0 \/ calls[i].fn # "select" THEN 0
    ELSE calls[i].took + Waited(calls, i - 1)

IsLast(i) == i = Len(io.calls)

\* the call that follows the i-th, if there is one, is an attempt on the
\* range of the attempt j, and not a select
Retried(i, j) ==
    /\ IsLast(i) => io.pc = "io"
    /\ ~IsLast(i) => /\ IsAttempt(io.calls[i + 1])
                     /\ io.calls[i + 1].buf = io.calls[j].buf
                     /\ io.calls[i + 1].len = io.calls[j].len

\* the attempt before the selects that end with the i-th call
RECURSIVE AttemptBefore(_, _)
AttemptBefore(calls, i) ==
    IF i = 0 \/ IsAttempt(calls[i]) THEN i ELSE AttemptBefore(calls, i - 1)

GaveUp(i) == IsLast(i) /\ Returned /\ io.ret = -1

\* C25: a write or read that fails with EAGAIN is followed by a wait for the
\* descriptor of at most network_timeout seconds; a wait that times out ends
\* the call with -1 and no other attempt; after a wait that found the
\* descriptor ready the attempt is made again; after EINTR the attempt is
\* made again without a wait; any other error ends the call with -1.
C25_TimeoutHandling ==
    \A i \in 1 .. Len(io.calls) :
        LET c == io.calls[i]
        IN  /\ (IsAttempt(c) /\ c.rv < 0 /\ c.errno = "EAGAIN" /\ io.sec > 0) =>
                  /\ IsLast(i) => (io.pc = "select" /\ io.tv = io.sec)
                  /\ ~IsLast(i) => (io.calls[i + 1].fn = "select"
                                      /\ io.calls[i + 1].tv = io.sec)
            /\ (IsAttempt(c) /\ c.rv < 0 /\ c.errno = "EAGAIN" /\ io.sec = 0) => GaveUp(i)
            /\ (IsAttempt(c) /\ c.rv < 0 /\ c.errno = "EINTR") => Retried(i, i)
            /\ (IsAttempt(c) /\ c.rv < 0 /\ c.errno \notin {"EAGAIN", "EINTR"}) => GaveUp(i)
            /\ c.fn = "select" =>
                  /\ Waited(io.calls, i) <= io.sec
                  /\ c.rv = 0 => GaveUp(i)
                  /\ c.rv > 0 => Retried(i, AttemptBefore(io.calls, i))

\* a write would have blocked, the wait of 2 seconds was interrupted after
\* one of them and timed out after the other, and uh_tcp_send returned -1
C25_Witness ==
    /\ Sending /\ Returned /\ io.ret = -1
    /\ io.sec = 2
    /\ Len(io.calls) = 3
    /\ io.calls[1].errno = "EAGAIN"
    /\ io.calls[2].fn = "select" /\ io.calls[2].errno = "EINTR" /\ io.calls[2].took = 1
    /\ io.calls[3].fn = "select" /\ io.calls[3].rv = 0 /\ io.calls[3].took = 1

\* a read would have blocked, the socket became readable, and the read was
\* made again
C25_WitnessRecv ==
    /\ io.op = "uh_tcp_recv" /\ Returned /\ io.ret > 0
    /\ Len(io.calls) = 3
    /\ io.calls[1].errno = "EAGAIN"
    /\ io.calls[2].fn = "select" /\ io.calls[2].rv = 1
    /\ io.calls[3].fn = "read"

====
